---------------------------- MODULE Spec2Model ----------------------------
(***************************************************************************)
(* A model of the pool-intelligence ETL: the pool classifier of            *)
(* include/transform/pool_inference.py and the address stage of            *)
(* dags/weekly_listings_etl.py (address_cleaning.py, address_correction.py)*)
(* with its base cleaning and its load into the listing store, the pool    *)
(* geocoding and the Overpass query of the OSM collection, the property    *)
(* matcher, the cleaning steps and the tasks of stage_to_master_etl, and   *)
(* the tasks of client_data_update_etl.  Each component has its own        *)
(* specification; the variables of the other components stay idle in it.   *)
(*                                                                         *)
(* Text is modelled character by character: a Python str is a TLA+ string, *)
(* read with Len, SubSeq and \o.  A DataFrame is a record                  *)
(* [columns, rows]; a row is a function from the column names to values.   *)
(***************************************************************************)
EXTENDS Integers, Sequences, FiniteSets, TLC

VARIABLES
    df_in,      \* the DataFrame handed to add_pool_inference_columns
    df,         \* the DataFrame as it goes through the pipeline stages
    scored,     \* what infer_pool_type returned (kept to state the properties)
    pool_pc,    \* the next stage of add_pool_inference_columns to run
    exc,        \* the exception that ended the call, or "none"
    adf_in,     \* the DataFrame the address stage reads
    adf,        \* df_out / df_fixed, then the stage's output
    df_parsed,  \* the table the caller hands to correct_addresses and keeps
    fix_cap,    \* correct_addresses: the argument max_fix
    api_key,    \* os.getenv("GEOCODIO_API_KEY"), "" when unset
    issue_inds, \* the indexes failing validation after parsing
    critical_inds,
    minor_inds,
    to_fix,     \* correct_addresses: the indexes it iterates
    fix_pos,    \* correct_addresses: the position of the loop in to_fix
    cache,      \* correct_addresses: query key -> provider result
    calls,      \* the query keys sent to the provider, in order
    geo_failed, \* the indexes whose provider call raised
    rate_limited, \* the indexes whose provider call raised HTTP 429
    float_failed, \* the indexes where float() raised on a returned coordinate
    still_bad,
    result,     \* the task's returned metadata
    addr_pc,    \* the next step of clean_and_correct_addresses
    addr_exc,   \* the exception that ended the task, or "none"
    pools_df,   \* the pools handed to batch_geocode_pools
    batch_key,  \* os.getenv("GEOCODIO_API_KEY") as batch_geocode_pools reads it
    batch_pos,  \* batch_geocode_pools: the row the loop is at
    geocoded_results,
    success_count,
    batch_calls, \* the rows sent to the provider, with what came of the request
    batch_pc,   \* the next step of batch_geocode_pools
    batch_exc,  \* the exception that ended batch_geocode_pools, or "none"
    properties, \* the rows of the table properties of the master store
    listing,    \* the address match_property_by_address is called with
    match_results, \* what the calls of match_property_by_address returned, in order
    cdf_in,     \* the merged table clean_and_transform_data reads
    cdf,        \* the table as it goes through the cleaning steps
    dedup_first, \* what the first application of remove_internal_duplicates returned
    clean_pc,   \* the next cleaning step
    assignment, \* stage store: the rows of table assignment joined with their pool and address
    uploaded,   \* stage store: the ids of the assignments with uploaded = TRUE
    master_properties, \* master store: the committed rows of table properties
    master_pools, \* master store: the committed rows of table pools
    merged,     \* stage_to_master_etl: the merged table of the run
    cleaned,    \* stage_to_master_etl: the cleaned table of the run
    assignment_ids, \* stage_to_master_etl: the ids to mark as uploaded
    interrupted, \* the ids of assignment_ids of the runs stopped after a master write
    insert_failed, \* an insert into the master store has raised
    etl_pc,     \* stage_to_master_etl: the next task
    osm_stack,  \* query_overpass_api: the active calls, the innermost last
    osm_elements, \* query_overpass_api: what the outermost call returned
    osm_events, \* query_overpass_api: the branches taken so far
    osm_pc,     \* query_overpass_api: "running" until the outermost call returns
    listing_db, \* listing store: the committed tables
    listing_tx, \* listing store: the tables as the open connection sees them
    db_before,  \* the committed tables when load_listings_to_db was called
    load_df,    \* load_listings_to_db: the table read from the parquet file
    load_rows,  \* load_listings_to_db: rows
    mls_to_location,
    search_locations,
    run_ts,     \* load_listings_to_db: the timestamp of the run
    load_stats, \* load_listings_to_db: the counts it returns
    load_raised, \* the exceptions raised by the statements of the run
    load_runs,  \* the runs so far: timestamp, pairs loaded, tracking table before
    load_pc,    \* load_listings_to_db: the next statement
    raw_listings, \* the extracted table clean_extracted_listings reads
    base_df,    \* what clean_extracted_listings returned
    base_pc,    \* "clean_listings" until clean_extracted_listings has returned
    m_before,   \* master store: the tables when the client_data_update run started
    m_properties, \* master store: the committed rows of table properties
    m_pools,    \* master store: the committed rows of table pools
    m_listings, \* master store: the committed rows of table listings
    new_df,     \* client_data_update: the new pool listings, then with their matches
    removed_df, \* client_data_update: the removed pool listings, then with their matches
    properties_df, \* properties_to_insert
    pools_new,
    pools_existing,
    listings_df, \* listings_to_insert
    updates_df, \* listings_to_update
    property_records, \* what upsert_properties returned
    existing_listings, \* update_removed_listings: what its check query returned
    new_pc,     \* the next task of the branch of the new listings
    removed_pc  \* the next task of the branch of the removed listings

poolVars == <<df_in, df, scored, pool_pc, exc>>

addrVars ==
    <<adf_in, adf, df_parsed, fix_cap, api_key, issue_inds, critical_inds, minor_inds,
      to_fix, fix_pos, cache, calls, geo_failed, rate_limited, float_failed, still_bad,
      result, addr_pc, addr_exc>>

\* The variables of the components that follow the address stage.
geoVars ==
    <<pools_df, batch_key, batch_pos, geocoded_results, success_count, batch_calls,
      batch_pc, batch_exc>>

matchVars == <<properties, listing, match_results>>

cleanVars == <<cdf_in, cdf, dedup_first, clean_pc>>

etlVars ==
    <<assignment, uploaded, master_properties, master_pools, merged, cleaned,
      assignment_ids, interrupted, insert_failed, etl_pc>>

\* The variables of the components that follow the cleaning steps.
osmVars == <<osm_stack, osm_elements, osm_events, osm_pc>>

loadVars ==
    <<listing_db, listing_tx, db_before, load_df, load_rows, mls_to_location,
      search_locations, run_ts, load_stats, load_raised, load_runs, load_pc>>

baseVars == <<raw_listings, base_df, base_pc>>

clientVars ==
    <<m_before, m_properties, m_pools, m_listings, new_df, removed_df, properties_df,
      pools_new, pools_existing, listings_df, updates_df, property_records,
      existing_listings, new_pc, removed_pc>>

tailVars == <<baseVars, clientVars>>

lateVars == <<etlVars, osmVars, loadVars, tailVars>>

extVars == <<geoVars, matchVars, cleanVars, lateVars>>

\* What the tasks of stage_to_master_etl leave alone.
etlRest == <<poolVars, addrVars, geoVars, matchVars, cleanVars, osmVars, loadVars, tailVars>>

\* What query_overpass_api leaves alone.
osmRest == <<poolVars, addrVars, geoVars, matchVars, cleanVars, etlVars, loadVars, tailVars>>

\* What load_listings_to_db leaves alone.
loadRest == <<poolVars, addrVars, geoVars, matchVars, cleanVars, etlVars, osmVars, tailVars>>

\* What clean_extracted_listings leaves alone.
baseRest ==
    <<poolVars, addrVars, geoVars, matchVars, cleanVars, etlVars, osmVars, loadVars,
      clientVars>>

\* What the tasks of client_data_update_etl leave alone.
clientRest ==
    <<poolVars, addrVars, geoVars, matchVars, cleanVars, etlVars, osmVars, loadVars,
      baseVars>>

vars == <<poolVars, addrVars, extVars>>

None == "<None>"

-----------------------------------------------------------------------------
(* Characters and the regular-expression classes the code uses.            *)

Char(s, i) == SubSeq(s, i, i)

\* The characters of a string, as a set.
CharsOf(alphabet) == { Char(alphabet, i) : i \in 1..Len(alphabet) }

LowerAlpha == "abcdefghijklmnopqrstuvwxyz"
UpperAlpha == "ABCDEFGHIJKLMNOPQRSTUVWXYZ"
DigitChars == "0123456789"

LowerSet == CharsOf(LowerAlpha)
UpperSet == CharsOf(UpperAlpha)
DigitSet == CharsOf(DigitChars)

IsDigit(c) == c \in DigitSet
IsLower(c) == c \in LowerSet
IsUpper(c) == c \in UpperSet
IsAlpha(c) == IsLower(c) \/ IsUpper(c)
\* \s
IsSpace(c) == c \in {" ", "\t", "\n"}
\* \w
IsWord(c) == IsAlpha(c) \/ IsDigit(c) \/ c = "_"

\* The lower-case letter of each upper-case letter, and the reverse.
ToLower ==
    [c \in UpperSet |->
        Char(LowerAlpha, CHOOSE i \in 1..Len(UpperAlpha) : Char(UpperAlpha, i) = c)]

ToUpper ==
    [c \in LowerSet |->
        Char(UpperAlpha, CHOOSE i \in 1..Len(LowerAlpha) : Char(LowerAlpha, i) = c)]

LowerChar(c) == IF IsUpper(c) THEN ToLower[c] ELSE c

UpperChar(c) == IF IsLower(c) THEN ToUpper[c] ELSE c

RECURSIVE StrLower(_)
StrLower(s) == IF s = "" THEN "" ELSE LowerChar(Char(s, 1)) \o StrLower(Tail(s))

RECURSIVE StrUpper(_)
StrUpper(s) == IF s = "" THEN "" ELSE UpperChar(Char(s, 1)) \o StrUpper(Tail(s))

RECURSIVE LStrip(_)
LStrip(s) == IF s # "" /\ IsSpace(Char(s, 1)) THEN LStrip(Tail(s)) ELSE s

RECURSIVE RStrip(_)
RStrip(s) ==
    IF s # "" /\ IsSpace(Char(s, Len(s))) THEN RStrip(SubSeq(s, 1, Len(s) - 1)) ELSE s

Strip(s) == RStrip(LStrip(s))

\* str.replace(r"[^a-z0-9\s]", " ", regex=True)
RECURSIVE ReplaceNonAlnum(_)
ReplaceNonAlnum(s) ==
    IF s = "" THEN ""
    ELSE LET c == Char(s, 1)
         IN  (IF IsLower(c) \/ IsDigit(c) \/ IsSpace(c) THEN c ELSE " ")
                 \o ReplaceNonAlnum(Tail(s))

\* str.replace(r"\s+", " ", regex=True)
RECURSIVE CollapseSpaces(_)
CollapseSpaces(s) ==
    IF s = "" THEN ""
    ELSE IF IsSpace(Char(s, 1))
         THEN " " \o CollapseSpaces(LStrip(s))
         ELSE Char(s, 1) \o CollapseSpaces(Tail(s))

\* _normalize_text_series, for one value of the series
NormalizeText(v) ==
    LET filled == IF v = None THEN "" ELSE v
    IN  Strip(CollapseSpaces(ReplaceNonAlnum(StrLower(filled))))

(* The positions where a match of phrase p that starts at i can end (the   *)
(* index after its last character).  p is re.escape(p) with every blank    *)
(* turned into \s+ : a literal, except that a blank matches a run of       *)
(* whitespace.                                                             *)
RECURSIVE PhraseEnds(_, _, _)
PhraseEnds(s, i, p) ==
    IF p = "" THEN {i}
    ELSE IF Char(p, 1) = " "
         THEN UNION { PhraseEnds(s, j, Tail(p)) :
                        j \in { j \in (i + 1)..(Len(s) + 1) :
                                  \A k \in i..(j - 1) : IsSpace(Char(s, k)) } }
         ELSE IF i <= Len(s) /\ Char(s, i) = Char(p, 1)
              THEN PhraseEnds(s, i + 1, Tail(p))
              ELSE {}

PhraseStarts(s, p) == { i \in 1..Len(s) : PhraseEnds(s, i, p) # {} }

\* _contains_any: str.contains of the alternation of the phrases
ContainsAny(s, phrases) ==
    /\ phrases # {}
    /\ \E p \in phrases : PhraseStarts(s, p) # {}

\* s[i..j-1] matches (?:\s+\w+){0,n}\s+
GapMatches(s, i, j, n) ==
    /\ i < j
    /\ IsSpace(Char(s, i))
    /\ IsSpace(Char(s, j - 1))
    /\ \A k \in i..(j - 1) : IsSpace(Char(s, k)) \/ IsWord(Char(s, k))
    /\ Cardinality({ k \in (i + 1)..(j - 1) :
                       IsWord(Char(s, k)) /\ IsSpace(Char(s, k - 1)) }) <= n

\* a, then at most n words, then b
Within(s, a, b, n) ==
    \E i \in PhraseStarts(s, a) : \E e \in PhraseEnds(s, i, a) :
        \E j \in PhraseStarts(s, b) : GapMatches(s, e, j, n)

\* str.contains(_phrase_window_pattern(target, phrases, window_words))
WindowMatch(s, target, phrases, window_words) ==
    \E p \in phrases :
        \/ Within(s, target, p, window_words)
        \/ Within(s, p, target, window_words)

-----------------------------------------------------------------------------
(* DataFrames.                                                             *)

SetCol(row, c, v) == [k \in (DOMAIN row) \cup {c} |-> IF k = c THEN v ELSE row[k]]

DropCols(row, cs) == [k \in (DOMAIN row) \ cs |-> row[k]]

\* pd.DataFrame()
EmptyFrame == [columns |-> {}, rows |-> <<>>]

\* df.empty
IsEmpty(d) == d.columns = {} \/ Len(d.rows) = 0

-----------------------------------------------------------------------------
(* include/transform/pool_inference.py, one operator per stage, for a row. *)

WindowWords == 12

exclusion_phrases == {"pool table", "carpool", "pooling", "shared pool of"}

neg_phrases ==
    {"no pool", "without a pool", "does not have a pool", "doesn't have a pool",
     "not a pool"}

communal_flags ==
    {"community", "condo", "clubhouse", "amenities", "fitness", "maintenance fees",
     "hoa", "gated community", "rec centre", "recreation centre", "indoor pool",
     "shared", "residents", "membership", "facility", "common elements"}

private_flags ==
    {"private", "backyard", "yard", "backyard oasis", "pool house", "patio", "deck",
     "interlocked", "landscaped", "in ground", "inground", "in ground pool",
     "in ground swimming pool", "saltwater", "hot tub", "walkout", "walk out",
     "fenced", "heater", "heated", "pump", "diving board", "liner", "gazebo"}

in_ground_flags ==
    {"in ground", "inground", "gunite", "concrete", "fiberglass", "saltwater",
     "lap pool", "plunge pool", "diving board", "pool house"}

above_ground_flags ==
    {"above ground", "aboveground", "portable", "inflatable", "removable"}

\* str.contains(r"\bpool\b"): "pool" with no word character on either side
HasPoolWord(s) ==
    \E i \in 1..(Len(s) - 3) :
        /\ SubSeq(s, i, i + 3) = "pool"
        /\ (i = 1 \/ ~IsWord(Char(s, i - 1)))
        /\ (i + 3 = Len(s) \/ ~IsWord(Char(s, i + 4)))

\* clean_and_normalize_description; has_src: the frame has the column src_col
CleanAndNormalizeRow(row, has_src) ==
    SetCol(row, "description_norm",
           NormalizeText(IF has_src THEN row["Description"] ELSE ""))

\* create_pool_flag without line 91: the exclusion flag is computed and not applied.
CreatePoolFlagRow_ExclusionNotApplied(row) ==
    SetCol(SetCol(row, "pool_exclusion_flag",
                  ContainsAny(row["description_norm"], exclusion_phrases)),
           "pool_flag", HasPoolWord(row["description_norm"]))

CreatePoolFlagRow(row) ==
    LET excl == ContainsAny(row["description_norm"], exclusion_phrases)
        flag == HasPoolWord(row["description_norm"])
    IN  SetCol(SetCol(row, "pool_exclusion_flag", excl),
               "pool_flag", IF excl THEN FALSE ELSE flag)

IdentifyPoolNegationRow(row) ==
    LET neg == ContainsAny(row["description_norm"], neg_phrases)
    IN  SetCol(SetCol(row, "pool_negation_flag", neg),
               "pool_flag", IF neg THEN FALSE ELSE row["pool_flag"])

IdentifyCommunalRow(row) ==
    SetCol(row, "communal_pool_flag",
           IF ~row["pool_flag"] THEN FALSE
           ELSE WindowMatch(row["description_norm"], "pool", communal_flags, WindowWords))

IdentifyPrivateRow(row) ==
    SetCol(row, "private_pool_flag",
           IF ~row["pool_flag"] THEN FALSE
           ELSE WindowMatch(row["description_norm"], "pool", private_flags, WindowWords))

InferConstructionRow(row) ==
    LET ing == ContainsAny(row["description_norm"], in_ground_flags)
        abv == ContainsAny(row["description_norm"], above_ground_flags)
    IN  SetCol(SetCol(row, "in_ground_pool_flag", row["pool_flag"] /\ ing),
               "above_ground_pool_flag", row["pool_flag"] /\ abv)

AsInt(b) == IF b THEN 1 ELSE 0

Min(a, b) == IF a <= b THEN a ELSE b

\* The verdict columns of one row as a record; pool_confidence in hundredths.
Verdict(t, c, e) == [pool_type |-> t, pool_confidence |-> c, pool_evidence |-> e]

\* infer_pool_type with a winning margin of 1 instead of 2.
InferVerdict_MarginOne(row) ==
    LET has_pool == row["pool_flag"]
        private_score == AsInt(row["private_pool_flag"]) * 3
                         + AsInt(row["in_ground_pool_flag"]) * 2
                         + AsInt(row["above_ground_pool_flag"]) * 1
        communal_score == AsInt(row["communal_pool_flag"]) * 3
        private_wins == has_pool /\ private_score >= communal_score + 1
        communal_wins == has_pool /\ communal_score >= private_score + 1
    IN  IF ~has_pool THEN Verdict("none", 0, "")
        ELSE IF communal_wins
             THEN Verdict("community",
                          Min(95, 70 + 10 * (communal_score - private_score)),
                          "community_cues_near_pool")
        ELSE IF private_wins
             THEN Verdict("private",
                          Min(95, 70 + 10 * (private_score - communal_score)),
                          "private_cues_near_pool")
        ELSE IF private_score > 0 \/ communal_score > 0
             THEN Verdict("unknown",
                          Min(85, 60 + 5 * (private_score + communal_score)),
                          "ambiguous_private_vs_community")
        ELSE Verdict("unknown", 55, "pool_mentioned_no_strong_signal")

(* infer_pool_type, lines 250-290: the masked assignments in the code's    *)
(* order, each overriding the one before it on the rows of its mask.       *)
InferVerdict(row) ==
    LET has_pool == row["pool_flag"]
        private_score == AsInt(row["private_pool_flag"]) * 3
                         + AsInt(row["in_ground_pool_flag"]) * 2
                         + AsInt(row["above_ground_pool_flag"]) * 1
        communal_score == AsInt(row["communal_pool_flag"]) * 3
        v0 == Verdict("none", 0, "")
        v1 == IF has_pool
              THEN Verdict("unknown", 55, "pool_mentioned_no_strong_signal")
              ELSE v0
        private_wins == has_pool /\ private_score >= communal_score + 2
                                 /\ private_score > 0
        v2 == IF private_wins
              THEN Verdict("private",
                           Min(95, 70 + 10 * (private_score - communal_score)),
                           "private_cues_near_pool")
              ELSE v1
        communal_wins == has_pool /\ communal_score >= private_score + 2
                                  /\ communal_score > 0
        v3 == IF communal_wins
              THEN Verdict("community",
                           Min(95, 70 + 10 * (communal_score - private_score)),
                           "community_cues_near_pool")
              ELSE v2
        ambiguous == has_pool /\ ~(private_wins \/ communal_wins)
                              /\ (private_score > 0 \/ communal_score > 0)
    IN  IF ambiguous
        THEN Verdict("unknown", Min(85, 60 + 5 * (private_score + communal_score)),
                     "ambiguous_private_vs_community")
        ELSE v3

InferPoolTypeRow(row) ==
    LET v == InferVerdict(row)
    IN  SetCol(SetCol(SetCol(row, "pool_type", v.pool_type),
                      "pool_confidence", v.pool_confidence),
               "pool_evidence", v.pool_evidence)

IntermediateColumns ==
    {"pool_confidence", "pool_evidence", "in_ground_pool_flag",
     "above_ground_pool_flag", "description_norm", "pool_exclusion_flag",
     "pool_negation_flag", "communal_pool_flag", "private_pool_flag"}

\* rectify_pool_inference with the private mask taken from the pool mention flag
\* of the earlier stages instead of from the verdict.
RectifyRow_MaskFromMention(row) ==
    LET private_mask == row["pool_flag"]
        d == SetCol(SetCol(row, "pool_flag", FALSE), "pool_type", "none")
        r1 == IF private_mask /\ d["in_ground_pool_flag"]
              THEN SetCol(SetCol(d, "pool_flag", TRUE), "pool_type", "in-ground")
              ELSE d
        r2 == IF private_mask /\ d["above_ground_pool_flag"]
              THEN SetCol(SetCol(r1, "pool_flag", TRUE), "pool_type", "above-ground")
              ELSE r1
        r3 == IF private_mask /\ ~d["in_ground_pool_flag"]
                              /\ ~d["above_ground_pool_flag"]
              THEN SetCol(SetCol(r2, "pool_flag", TRUE), "pool_type", "none")
              ELSE r2
    IN  DropCols(r3, IntermediateColumns)

(* rectify_pool_inference, lines 366-404.  The two defaults are written    *)
(* first (lines 369-370) and private_mask is read from the pool_type       *)
(* column after that (line 373).                                           *)
RectifyRow(row) ==
    LET d == SetCol(SetCol(row, "pool_flag", FALSE), "pool_type", "none")
        private_mask == d["pool_type"] = "private"
        in_ground_mask == private_mask /\ d["in_ground_pool_flag"]
        r1 == IF in_ground_mask
              THEN SetCol(SetCol(d, "pool_flag", TRUE), "pool_type", "in-ground")
              ELSE d
        above_ground_mask == private_mask /\ d["above_ground_pool_flag"]
        r2 == IF above_ground_mask
              THEN SetCol(SetCol(r1, "pool_flag", TRUE), "pool_type", "above-ground")
              ELSE r1
        unknown_private_mask == private_mask /\ ~(in_ground_mask \/ above_ground_mask)
        r3 == IF unknown_private_mask
              THEN SetCol(SetCol(r2, "pool_flag", TRUE), "pool_type", "none")
              ELSE r2
    IN  DropCols(r3, IntermediateColumns)

-----------------------------------------------------------------------------
(* include/transform/address_cleaning.py: parse_address and the validator. *)

\* str.find: the first index at which sub starts in s, 0 when there is none
Find(s, sub) ==
    LET hits == { i \in 1..(Len(s) - Len(sub) + 1) : SubSeq(s, i, i + Len(sub) - 1) = sub }
    IN  IF hits = {} THEN 0 ELSE CHOOSE i \in hits : \A j \in hits : i <= j

\* s.split(sep, 1)[0] and s.split(sep, 1)[1], for a sep that occurs in s
Before(s, sep) == SubSeq(s, 1, Find(s, sep) - 1)
After(s, sep) == SubSeq(s, Find(s, sep) + Len(sep), Len(s))

\* str.replace(sub, ""), for a non-empty sub
RECURSIVE RemoveAll(_, _)
RemoveAll(s, sub) ==
    IF Find(s, sub) = 0 THEN s
    ELSE Before(s, sub) \o RemoveAll(After(s, sub), sub)

\* re.sub(r"\(.*?\)", "", s)
RECURSIVE RemoveParentheticals(_)
RemoveParentheticals(s) ==
    LET open == Find(s, "(")
        rest == SubSeq(s, open + 1, Len(s))
    IN  IF open = 0 \/ Find(rest, ")") = 0 THEN s
        ELSE SubSeq(s, 1, open - 1) \o RemoveParentheticals(After(rest, ")"))

\* the longest prefix of s made of digits
RECURSIVE DigitPrefix(_)
DigitPrefix(s) ==
    IF s # "" /\ IsDigit(Char(s, 1)) THEN Char(s, 1) \o DigitPrefix(Tail(s)) ELSE ""

\* CA_POSTAL_RE, lines 8-11: the letters of the first and of the other positions
PostalFirstLetters == CharsOf("ABCEGHJKLMNPRSTVXY")
PostalOtherLetters == CharsOf("ABCEGHJKLMNPRSTVWXYZ")

\* \b between s[i-1] and s[i]
WordBoundary(s, i) ==
    (i > 1 /\ i - 1 <= Len(s) /\ IsWord(Char(s, i - 1)))
        # (i <= Len(s) /\ IsWord(Char(s, i)))

\* The length of the match of CA_POSTAL_RE that starts at i, 0 when there is none.
PostalMatchLen(s, i) ==
    LET sep == IF i + 3 <= Len(s) /\ Char(s, i + 3) \in {" ", "-"} THEN 1 ELSE 0
        n == 6 + sep
    IN  IF /\ i + n - 1 <= Len(s)
           /\ WordBoundary(s, i)
           /\ UpperChar(Char(s, i)) \in PostalFirstLetters
           /\ IsDigit(Char(s, i + 1))
           /\ UpperChar(Char(s, i + 2)) \in PostalOtherLetters
           /\ IsDigit(Char(s, i + 3 + sep))
           /\ UpperChar(Char(s, i + 4 + sep)) \in PostalOtherLetters
           /\ IsDigit(Char(s, i + 5 + sep))
           /\ WordBoundary(s, i + n)
        THEN n ELSE 0

extract_postal_code(address) ==
    IF address = None \/ address = "" THEN None
    ELSE LET hits == { i \in 1..Len(address) : PostalMatchLen(address, i) > 0 }
         IN  IF hits = {} THEN None
             ELSE LET i == CHOOSE i \in hits : \A j \in hits : i <= j
                  IN  RemoveAll(StrUpper(SubSeq(address, i,
                                                i + PostalMatchLen(address, i) - 1)), " ")

\* x or None
OrNone(x) == IF x = "" THEN None ELSE x

get_street_address(s) ==
    IF s = None \/ s = "" \/ Find(s, "|") = 0 THEN None
    ELSE OrNone(Strip(Before(s, "|")))

get_city(s) ==
    IF s = None \/ s = "" \/ Find(s, "|") = 0 THEN None
    ELSE LET right == After(s, "|")
             head == IF Find(right, ",") > 0 THEN Before(right, ",") ELSE right
         IN  OrNone(Strip(RemoveParentheticals(Strip(head))))

get_address_number(street_part) ==
    IF street_part = None \/ street_part = "" THEN None
    ELSE LET d == DigitPrefix(LStrip(street_part))
         IN  IF d = "" THEN None ELSE d

valid_provinces ==
    <<"Alberta", "British Columbia", "Manitoba", "New Brunswick",
      "Newfoundland and Labrador", "Nova Scotia", "Ontario", "Prince Edward Island",
      "Quebec", "Saskatchewan", "Northwest Territories", "Nunavut", "Yukon">>

\* get_province_from_address without lines 72-75: the postal code is left in.
get_province_from_address_PostalKept(s) ==
    IF s = None \/ s = "" \/ Find(s, "|") = 0 THEN None
    ELSE LET right0 == After(s, "|")
             right == IF Find(right0, ",") > 0 THEN After(right0, ",") ELSE right0
             province_state == Strip(right)
             named == { k \in 1..Len(valid_provinces) :
                          Find(province_state, valid_provinces[k]) > 0 }
         IN  IF named # {}
             THEN valid_provinces[CHOOSE k \in named : \A j \in named : k <= j]
             ELSE province_state

get_province_from_address(s) ==
    IF s = None \/ s = "" \/ Find(s, "|") = 0 THEN None
    ELSE LET right0 == After(s, "|")
             right1 == IF Find(right0, ",") > 0 THEN After(right0, ",") ELSE right0
             postal_code == extract_postal_code(right1)
             right == IF postal_code # None THEN RemoveAll(right1, postal_code)
                      ELSE right1
             province_state == Strip(right)
             \* the exact match of line 94 is the first case of the loop of line 98
             named == { k \in 1..Len(valid_provinces) :
                          Find(province_state, valid_provinces[k]) > 0 }
         IN  IF \E k \in 1..Len(valid_provinces) : valid_provinces[k] = province_state
             THEN province_state
             ELSE IF named # {}
             THEN valid_provinces[CHOOSE k \in named : \A j \in named : k <= j]
             ELSE province_state

\* The parsed columns clean_addresses adds to a row (lines 184-189).
parse_address(address) ==
    [address_number |-> get_address_number(get_street_address(address)),
     street_address |-> get_street_address(address),
     city |-> get_city(address),
     postal_code |-> extract_postal_code(address),
     province_state |-> get_province_from_address(address)]

ParsedColumns ==
    {"address_number", "street_address", "city", "postal_code", "province_state"}

\* fillna("").astype(str).str.strip()
FilledStripped(v) == IF v = None THEN "" ELSE Strip(v)

\* _is_nonempty_str
IsNonemptyStr(v) == FilledStripped(v) \notin {"", "nan", "none"}

\* ^\d+[A-Z]?$ or ^\d+-?[A-Z]?$
AddrNumberOk(v) ==
    LET x == FilledStripped(v)
        d == DigitPrefix(x)
        r1 == SubSeq(x, Len(d) + 1, Len(x))
        r2 == IF r1 # "" /\ Char(r1, 1) = "-" THEN Tail(r1) ELSE r1
    IN  /\ d # ""
        /\ \/ r1 = ""
           \/ Len(r1) = 1 /\ IsUpper(Char(r1, 1))
           \/ r2 = ""
           \/ Len(r2) = 1 /\ IsUpper(Char(r2, 1))

\* str.replace(r"[\s-]", "", regex=True)
RECURSIVE RemoveSpacesAndDashes(_)
RemoveSpacesAndDashes(s) ==
    IF s = "" THEN ""
    ELSE (IF IsSpace(Char(s, 1)) \/ Char(s, 1) = "-" THEN "" ELSE Char(s, 1))
             \o RemoveSpacesAndDashes(Tail(s))

\* ^[A-Z]\d[A-Z]\d[A-Z]\d$ on the normalised postal code
PostalCodeOk(v) ==
    LET pc == Strip(RemoveSpacesAndDashes(StrUpper(IF v = None THEN "" ELSE v)))
    IN  /\ Len(pc) = 6
        /\ \A k \in {1, 3, 5} : IsUpper(Char(pc, k))
        /\ \A k \in {2, 4, 6} : IsDigit(Char(pc, k))

StreetOk(v) ==
    LET street == FilledStripped(v)
    IN  \E k \in 1..Len(street) : IsAlpha(Char(street, k))

\* fail, for one row of validate_parsed_addresses
RowFails(row) ==
    \/ \E c \in {"street_address", "city", "postal_code", "address_number"} :
           ~IsNonemptyStr(row[c])
    \/ ~AddrNumberOk(row["address_number"])
    \/ ~PostalCodeOk(row["postal_code"])
    \/ ~StreetOk(row["street_address"])

\* The increasing sequence of the members of a set of indices (df.index[mask].tolist()).
RECURSIVE SortedSeq(_)
SortedSeq(S) ==
    IF S = {} THEN <<>>
    ELSE LET lo == CHOOSE x \in S : \A y \in S : x <= y
         IN  <<lo>> \o SortedSeq(S \ {lo})

\* validate_parsed_addresses: the frame's index is 1..Len(rows)
validate_parsed_addresses(d) == SortedSeq({ i \in 1..Len(d.rows) : RowFails(d.rows[i]) })

NoResult == [rows_before |-> 0, rows_after |-> 0, initial_bad_rows |-> 0,
             still_bad_rows |-> 0]

\* The address stage is not running.
AddrIdle ==
    /\ adf_in = EmptyFrame
    /\ adf = EmptyFrame
    /\ df_parsed = EmptyFrame
    /\ fix_cap = 0
    /\ rate_limited = {}
    /\ float_failed = {}
    /\ api_key = ""
    /\ issue_inds = <<>>
    /\ critical_inds = <<>>
    /\ minor_inds = <<>>
    /\ to_fix = <<>>
    /\ fix_pos = 0
    /\ cache = <<>>
    /\ calls = <<>>
    /\ geo_failed = {}
    /\ still_bad = <<>>
    /\ result = NoResult
    /\ addr_pc = "idle"
    /\ addr_exc = "none"

\* batch_geocode_pools is not running.
BatchIdle ==
    /\ pools_df = <<>>
    /\ batch_key = ""
    /\ batch_pos = 0
    /\ geocoded_results = <<>>
    /\ success_count = 0
    /\ batch_calls = <<>>
    /\ batch_pc = "idle"
    /\ batch_exc = "none"

\* match_property_by_address is not called.
MatchIdle ==
    /\ properties = {}
    /\ listing = <<>>
    /\ match_results = <<>>

\* clean_and_transform_data is not running.
CleanIdle ==
    /\ cdf_in = EmptyFrame
    /\ cdf = EmptyFrame
    /\ dedup_first = EmptyFrame
    /\ clean_pc = "idle"

\* stage_to_master_etl is not running and its stores are empty.
EtlIdle ==
    /\ assignment = <<>>
    /\ uploaded = {}
    /\ master_properties = <<>>
    /\ master_pools = <<>>
    /\ merged = <<>>
    /\ cleaned = <<>>
    /\ assignment_ids = <<>>
    /\ interrupted = {}
    /\ insert_failed = FALSE
    /\ etl_pc = "idle"

\* query_overpass_api is not running.
OsmIdle ==
    /\ osm_stack = <<>>
    /\ osm_elements = <<>>
    /\ osm_events = {}
    /\ osm_pc = "idle"

\* The listing store without a row.
EmptyListingDb ==
    [listing |-> <<>>, listing_staging |-> <<>>, listing_search_location |-> {},
     listing_removal |-> {}, re_listing |-> {}]

\* The counts of load_listings_to_db before it returns.
NoStats ==
    [staging_rows |-> 0, location_mappings |-> 0, new_listings |-> 0, removals |-> 0,
     relistings |-> 0, skipped_rows |-> 0]

\* load_listings_to_db is not running and its store is empty.
LoadIdle ==
    /\ listing_db = EmptyListingDb
    /\ listing_tx = EmptyListingDb
    /\ db_before = EmptyListingDb
    /\ load_df = <<>>
    /\ load_rows = <<>>
    /\ mls_to_location = {}
    /\ search_locations = {}
    /\ run_ts = 0
    /\ load_stats = NoStats
    /\ load_raised = {}
    /\ load_runs = <<>>
    /\ load_pc = "idle"

\* The components that follow the cleaning steps are not running.
BaseIdle ==
    /\ raw_listings = <<>>
    /\ base_df = <<>>
    /\ base_pc = "idle"

EmptyMaster == [properties |-> {}, pools |-> {}, listings |-> {}]

ClientIdle ==
    /\ m_before = EmptyMaster
    /\ m_properties = {}
    /\ m_pools = {}
    /\ m_listings = {}
    /\ new_df = <<>>
    /\ removed_df = <<>>
    /\ properties_df = <<>>
    /\ pools_new = <<>>
    /\ pools_existing = <<>>
    /\ listings_df = <<>>
    /\ updates_df = <<>>
    /\ property_records = {}
    /\ existing_listings = {}
    /\ new_pc = "idle"
    /\ removed_pc = "idle"

TailIdle == BaseIdle /\ ClientIdle

LateIdle == EtlIdle /\ OsmIdle /\ LoadIdle /\ TailIdle

\* The components that follow the address stage are not running.
ExtIdle == BatchIdle /\ MatchIdle /\ CleanIdle /\ LateIdle

\* The pool classifier is not running.
PoolIdle ==
    /\ df_in = EmptyFrame
    /\ df = EmptyFrame
    /\ scored = EmptyFrame
    /\ pool_pc = "idle"
    /\ exc = "none"

-----------------------------------------------------------------------------
(* add_pool_inference_columns: the stages in the order of lines 418-425.   *)

MaxRows == 1

\* What stands around the phrase under test: nothing, private cues, communal cues.
PoolContext ==
    { <<"", "">>, <<"Private backyard with ", " and hot tub">>,
      <<"Condo amenities: ", "">> }

PoolCore ==
    {"pool", "Pool!", "no pool", "without a pool", "does not have a pool",
     "doesn't have a pool", "not a pool", "pool table", "carpool", "pooling",
     "shared pool of", "inground pool", "above ground pool", "spa"}

Scenarios ==
    {"Beautiful home with private inground pool and hot tub",
     "Community centre with pool and clubhouse amenities",
     "No pool, great yard"}

Descriptions ==
    { x[1] \o b \o x[2] : x \in PoolContext, b \in PoolCore }
        \cup Scenarios \cup {"", None}

SeqsUpTo(S, n) == UNION { [1..k -> S] : k \in 0..n }

\* Tables with a Description column, and tables without one.
PoolTables ==
    { [columns |-> {"Description"}, rows |-> rs] :
        rs \in SeqsUpTo({ [Description |-> d] : d \in Descriptions }, MaxRows) }
    \cup
    { [columns |-> {"Address"}, rows |-> rs] :
        rs \in SeqsUpTo({ [Address |-> "123 Main St|Toronto, ON M5V3A8"] }, MaxRows) }

PoolStages ==
    <<"clean_and_normalize_description", "create_pool_flag", "identify_pool_negation",
      "identify_communal_indications", "identify_private_indicators",
      "infer_pool_construction_type", "infer_pool_type", "rectify_pool_inference",
      "done">>

StageNo(name) == CHOOSE i \in 1..Len(PoolStages) : PoolStages[i] = name

InitPool ==
    /\ df_in \in PoolTables
    /\ df = df_in
    /\ scored = EmptyFrame
    /\ pool_pc = "clean_and_normalize_description"
    /\ exc = "none"
    /\ AddrIdle
    /\ ExtIdle

\* The frame d with the columns cs added and its rows replaced by rows.
WithCols(d, cs, rows) == [columns |-> d.columns \cup cs, rows |-> rows]

CleanAndNormalizeDescription ==
    /\ pool_pc = "clean_and_normalize_description"
    /\ df' = WithCols(df, {"description_norm"},
                      [i \in 1..Len(df.rows) |->
                          CleanAndNormalizeRow(df.rows[i], "Description" \in df.columns)])
    /\ pool_pc' = "create_pool_flag"
    /\ UNCHANGED <<df_in, scored, exc, addrVars, extVars>>

CreatePoolFlag ==
    /\ pool_pc = "create_pool_flag"
    /\ df' = WithCols(df, {"pool_flag", "pool_exclusion_flag"},
                      [i \in 1..Len(df.rows) |-> CreatePoolFlagRow(df.rows[i])])
    /\ pool_pc' = "identify_pool_negation"
    /\ UNCHANGED <<df_in, scored, exc, addrVars, extVars>>

IdentifyPoolNegation ==
    /\ pool_pc = "identify_pool_negation"
    /\ df' = WithCols(df, {"pool_negation_flag"},
                      [i \in 1..Len(df.rows) |-> IdentifyPoolNegationRow(df.rows[i])])
    /\ pool_pc' = "identify_communal_indications"
    /\ UNCHANGED <<df_in, scored, exc, addrVars, extVars>>

IdentifyCommunalIndications ==
    /\ pool_pc = "identify_communal_indications"
    /\ df' = WithCols(df, {"communal_pool_flag"},
                      [i \in 1..Len(df.rows) |-> IdentifyCommunalRow(df.rows[i])])
    /\ pool_pc' = "identify_private_indicators"
    /\ UNCHANGED <<df_in, scored, exc, addrVars, extVars>>

IdentifyPrivateIndicators ==
    /\ pool_pc = "identify_private_indicators"
    /\ df' = WithCols(df, {"private_pool_flag"},
                      [i \in 1..Len(df.rows) |-> IdentifyPrivateRow(df.rows[i])])
    /\ pool_pc' = "infer_pool_construction_type"
    /\ UNCHANGED <<df_in, scored, exc, addrVars, extVars>>

InferPoolConstructionType ==
    /\ pool_pc = "infer_pool_construction_type"
    /\ df' = WithCols(df, {"in_ground_pool_flag", "above_ground_pool_flag"},
                      [i \in 1..Len(df.rows) |-> InferConstructionRow(df.rows[i])])
    /\ pool_pc' = "infer_pool_type"
    /\ UNCHANGED <<df_in, scored, exc, addrVars, extVars>>

\* infer_pool_type: lines 244-246 return pd.DataFrame() for an empty frame or one
\* without a Description column.
InferPoolType ==
    /\ pool_pc = "infer_pool_type"
    /\ df' = IF IsEmpty(df) \/ "Description" \notin df.columns
             THEN EmptyFrame
             ELSE WithCols(df, {"pool_type", "pool_confidence", "pool_evidence"},
                           [i \in 1..Len(df.rows) |-> InferPoolTypeRow(df.rows[i])])
    /\ scored' = df'
    /\ pool_pc' = "rectify_pool_inference"
    /\ UNCHANGED <<df_in, exc, addrVars, extVars>>

\* rectify_pool_inference: lines 376 and 381 index the two construction columns,
\* which raises KeyError on a frame that does not have them.
RectifyPoolInference ==
    /\ pool_pc = "rectify_pool_inference"
    /\ IF {"in_ground_pool_flag", "above_ground_pool_flag"} \subseteq df.columns
       THEN /\ df' = [columns |-> (df.columns \cup {"pool_flag", "pool_type"})
                                      \ IntermediateColumns,
                      rows |-> [i \in 1..Len(df.rows) |-> RectifyRow(df.rows[i])]]
            /\ pool_pc' = "done"
            /\ exc' = "none"
       ELSE /\ df' = df
            /\ pool_pc' = "raised"
            /\ exc' = "KeyError"
    /\ UNCHANGED <<df_in, scored, addrVars, extVars>>

NextPool ==
    \/ CleanAndNormalizeDescription
    \/ CreatePoolFlag
    \/ IdentifyPoolNegation
    \/ IdentifyCommunalIndications
    \/ IdentifyPrivateIndicators
    \/ InferPoolConstructionType
    \/ InferPoolType
    \/ RectifyPoolInference

SpecPool == InitPool /\ [][NextPool]_vars

-----------------------------------------------------------------------------
(* infer_pool_type on every combination of the flag columns.               *)

MaxFlagRows == 2

FlagRows ==
    { [Description |-> "pool", description_norm |-> "pool",
       pool_exclusion_flag |-> FALSE, pool_negation_flag |-> FALSE,
       pool_flag |-> f, private_pool_flag |-> p, communal_pool_flag |-> c,
       in_ground_pool_flag |-> g, above_ground_pool_flag |-> a] :
        f \in BOOLEAN, p \in BOOLEAN, c \in BOOLEAN, g \in BOOLEAN, a \in BOOLEAN }

FlagColumns ==
    {"Description", "description_norm", "pool_exclusion_flag", "pool_negation_flag",
     "pool_flag", "private_pool_flag", "communal_pool_flag", "in_ground_pool_flag",
     "above_ground_pool_flag"}

InitInfer ==
    /\ df_in \in { [columns |-> FlagColumns, rows |-> rs] :
                     rs \in SeqsUpTo(FlagRows, MaxFlagRows) }
    /\ df = df_in
    /\ scored = EmptyFrame
    /\ pool_pc = "infer_pool_type"
    /\ exc = "none"
    /\ AddrIdle
    /\ ExtIdle

NextInfer ==
    \/ InferPoolType
    \/ RectifyPoolInference

SpecInfer == InitInfer /\ [][NextInfer]_vars

-----------------------------------------------------------------------------
(* include/transform/address_correction.py and the task                    *)
(* clean_and_correct_addresses of dags/weekly_listings_etl.py.             *)
(* A coordinate is <<>> when it is None/NaN and <<v>> when it has value v. *)

NaN == <<>>

IsNa(x) == x = NaN

\* clean_addresses, lines 182-189: the frame with the parsed columns
ParsedFrame(d) ==
    [columns |-> d.columns \cup ParsedColumns,
     rows |-> [i \in 1..Len(d.rows) |->
                 LET parsed == parse_address(d.rows[i]["Address"])
                 IN  [k \in (DOMAIN d.rows[i]) \cup ParsedColumns |->
                        IF k \in ParsedColumns THEN parsed[k] ELSE d.rows[i][k]]]]

\* categorize_address_issues with has_coords false only at exactly (0, 0).
HasCoords_BothZero(d, idx) ==
    LET lat == IF "Latitude" \in d.columns THEN d.rows[idx]["Latitude"] ELSE NaN
        lon == IF "Longitude" \in d.columns THEN d.rows[idx]["Longitude"] ELSE NaN
    IN  /\ ~IsNa(lat)
        /\ ~IsNa(lon)
        /\ ~(lat[1] = 0 /\ lon[1] = 0)

\* categorize_address_issues, lines 34-44: has_coords of the row at idx
HasCoords(d, idx) ==
    LET lat == IF "Latitude" \in d.columns THEN d.rows[idx]["Latitude"] ELSE NaN
        lon == IF "Longitude" \in d.columns THEN d.rows[idx]["Longitude"] ELSE NaN
    IN  /\ ~IsNa(lat)
        /\ ~IsNa(lon)
        /\ lat[1] # 0
        /\ lon[1] # 0

\* SelectSeq without an operator argument: the members of inds with has_coords = keep
RECURSIVE SplitByCoords(_, _, _)
SplitByCoords(d, inds, keep) ==
    IF inds = <<>> THEN <<>>
    ELSE (IF HasCoords(d, Head(inds)) = keep THEN <<Head(inds)>> ELSE <<>>)
             \o SplitByCoords(d, Tail(inds), keep)

\* categorize_address_issues: (critical, minor)
categorize_address_issues(d, inds) ==
    <<SplitByCoords(d, inds, FALSE), SplitByCoords(d, inds, TRUE)>>

Range(f) == { f[i] : i \in DOMAIN f }

\* str(v) inside the f-string of line 252
PyStr(v) == IF v = None THEN "None" ELSE v

\* correct_addresses, line 252
QueryKey(row) ==
    PyStr(row["address_number"]) \o "|" \o PyStr(row["street_address"]) \o "|"
        \o PyStr(row["city"]) \o "|" \o PyStr(row["postal_code"])

\* A coordinate of the response that is not a number: float() raises on it.
Malformed == <<0, 0>>

(* What geocode_correct_address returns when it does not raise: the        *)
(* corrected components and the coordinates of the provider's top result,  *)
(* which are passed on as the response holds them.                         *)
GeocodeResults ==
    { [components |-> [address_number |-> "9", street_name |-> "Elm Rd",
                       city |-> "Barrie", postal_code |-> "L4N1A1"],
       lat |-> <<44>>, lon |-> <<-79>>],
      [components |-> [address_number |-> None, street_name |-> None,
                       city |-> "Barrie", postal_code |-> None],
       lat |-> <<44>>, lon |-> NaN],
      [components |-> [address_number |-> "9", street_name |-> "Elm Rd",
                       city |-> "Barrie", postal_code |-> "L4N1A1"],
       lat |-> Malformed, lon |-> <<-79>>],
      [components |-> [address_number |-> None, street_name |-> None,
                       city |-> None, postal_code |-> None],
       lat |-> <<44>>, lon |-> Malformed] }

\* The ways the provider call raises: requests' Timeout and HTTPError, and
\* the ValueError of geocode_correct_address, line 188.
ProviderErrors == {"Timeout", "HTTPError 500", "HTTPError 429", "ValueError no results"}

\* comps.get(k) is truthy
Truthy(v) == v # None /\ v # ""

\* correct_addresses, lines 267-276: the address fields the result supplies
MergeComponents(row, comps) ==
    LET r1 == IF Truthy(comps.address_number)
              THEN SetCol(row, "address_number", Strip(comps.address_number)) ELSE row
        r2 == IF Truthy(comps.street_name)
              THEN SetCol(r1, "street_address", Strip(comps.street_name)) ELSE r1
        r3 == IF Truthy(comps.city)
              THEN SetCol(r2, "city", Strip(comps.city)) ELSE r2
    IN  IF Truthy(comps.postal_code)
        THEN SetCol(r3, "postal_code",
                    Strip(RemoveAll(StrUpper(comps.postal_code), " ")))
        ELSE r3

\* correct_addresses, lines 278-283: float(lat) or float(lon) raises
FloatRaises(res, has_latlon) ==
    /\ ~IsNa(res.lat)
    /\ ~IsNa(res.lon)
    /\ has_latlon
    /\ (res.lat = Malformed \/ res.lon = Malformed)

(* correct_addresses, lines 267-283: the row after a result was merged     *)
(* into it, up to the statement that raised, if one did.                   *)
MergeResult(row, res, has_latlon) ==
    LET r4 == MergeComponents(row, res.components)
    IN  IF ~IsNa(res.lat) /\ ~IsNa(res.lon) /\ has_latlon
        THEN IF res.lat = Malformed THEN r4
             ELSE IF res.lon = Malformed THEN SetCol(r4, "Latitude", res.lat)
             ELSE SetCol(SetCol(r4, "Latitude", res.lat), "Longitude", res.lon)
        ELSE r4

\* df.drop(index=inds) whose result is not assigned back.
DropRows_NotAssigned(d, inds) == d

\* df.drop(index=inds).reset_index(drop=True)
DropRows(d, inds) ==
    [columns |-> d.columns,
     rows |-> LET kept == SortedSeq((1..Len(d.rows)) \ Range(inds))
              IN  [j \in 1..Len(kept) |-> d.rows[kept[j]]]]

max_fix == 250

\* issue_inds[:max_fix] without the cap.
Take_All(seq, n) == seq

\* issue_inds[:max_fix]
Take(seq, n) == SubSeq(seq, 1, Min(n, Len(seq)))

\* [i for i in issue_inds if i in df_out.index]
RECURSIVE ExistingInds(_, _)
ExistingInds(d, inds) ==
    IF inds = <<>> THEN <<>>
    ELSE (IF Head(inds) \in 1..Len(d.rows) THEN <<Head(inds)>> ELSE <<>>)
             \o ExistingInds(d, Tail(inds))

\* df_out = df: the caller's table is the one the loop writes to.
CallerFrame_Aliased(d, out) == out

\* df_out = df.copy(): what the loop writes does not reach the caller's table
CallerFrame(d, out) == d

\* clean_and_correct_addresses, lines 284-302, with clean_addresses
CleanAddresses ==
    /\ addr_pc = "clean_addresses"
    /\ IF IsEmpty(adf_in)
       THEN /\ result' = NoResult
            /\ addr_pc' = "done"
            /\ UNCHANGED <<adf, df_parsed, issue_inds, addr_exc>>
       ELSE IF "Address" \notin adf_in.columns
       THEN /\ addr_exc' = "ValueError"
            /\ addr_pc' = "raised"
            /\ UNCHANGED <<adf, df_parsed, issue_inds, result>>
       ELSE /\ adf' = ParsedFrame(adf_in)
            /\ df_parsed' = adf'
            /\ issue_inds' = validate_parsed_addresses(adf')
            /\ addr_pc' = "categorize_address_issues"
            /\ UNCHANGED <<result, addr_exc>>
    /\ UNCHANGED <<adf_in, fix_cap, api_key, critical_inds, minor_inds, to_fix, fix_pos,
                   cache, calls, geo_failed, rate_limited, float_failed, still_bad,
                   poolVars, extVars>>

\* clean_and_correct_addresses, line 311
CategorizeAddressIssues ==
    /\ addr_pc = "categorize_address_issues"
    /\ critical_inds' = categorize_address_issues(adf, issue_inds)[1]
    /\ minor_inds' = categorize_address_issues(adf, issue_inds)[2]
    /\ addr_pc' = "correct_addresses"
    /\ UNCHANGED <<adf_in, adf, df_parsed, fix_cap, api_key, issue_inds, to_fix, fix_pos,
                   cache, calls, geo_failed, rate_limited, float_failed, still_bad,
                   result, addr_exc, poolVars, extVars>>

(* clean_and_correct_addresses, lines 323-344: correct_addresses is called *)
(* with the critical rows and max_fix = 250 when there is a key and a      *)
(* critical row; otherwise still_bad is the critical rows.                 *)
CorrectAddressesCall ==
    /\ addr_pc = "correct_addresses"
    /\ IF api_key # "" /\ critical_inds # <<>>
       THEN /\ fix_cap' = max_fix
            /\ addr_pc' = "correct_addresses_entry"
            /\ UNCHANGED still_bad
       ELSE /\ still_bad' = critical_inds
            /\ addr_pc' = "drop_still_bad"
            /\ UNCHANGED fix_cap
    /\ UNCHANGED <<adf_in, adf, df_parsed, api_key, issue_inds, critical_inds,
                   minor_inds, to_fix, fix_pos, cache, calls, geo_failed, rate_limited,
                   float_failed, result, addr_exc, poolVars, extVars>>

(* correct_addresses, lines 229-243, called with df = df_parsed,           *)
(* issue_inds = critical_inds and max_fix = fix_cap.                       *)
CorrectAddressesEntry ==
    /\ addr_pc = "correct_addresses_entry"
    /\ IF IsEmpty(df_parsed)
       THEN /\ adf' = EmptyFrame
            /\ still_bad' = <<>>
            /\ addr_pc' = "drop_still_bad"
            /\ UNCHANGED <<to_fix, fix_pos, cache, addr_exc>>
       ELSE IF api_key = ""
       THEN /\ addr_exc' = "ValueError"
            /\ addr_pc' = "raised"
            /\ UNCHANGED <<adf, still_bad, to_fix, fix_pos, cache>>
       ELSE IF critical_inds = <<>>
       THEN /\ adf' = df_parsed
            /\ still_bad' = <<>>
            /\ addr_pc' = "drop_still_bad"
            /\ UNCHANGED <<to_fix, fix_pos, cache, addr_exc>>
       ELSE /\ adf' = df_parsed
            /\ to_fix' = Take(ExistingInds(df_parsed, critical_inds), fix_cap)
            /\ fix_pos' = 1
            /\ cache' = <<>>
            /\ addr_pc' = "geocode"
            /\ UNCHANGED <<still_bad, addr_exc>>
    /\ UNCHANGED <<adf_in, df_parsed, fix_cap, api_key, issue_inds, critical_inds,
                   minor_inds, calls, geo_failed, rate_limited, float_failed, result,
                   poolVars, extVars>>

\* The frame with the result merged into the row at idx.
Merged(d, idx, res) ==
    [d EXCEPT !.rows[idx] =
        MergeResult(@, res, "Latitude" \in d.columns /\ "Longitude" \in d.columns)]

\* float() raises while the result is merged into a row of d.
MergeRaises(d, res) ==
    FloatRaises(res, "Latitude" \in d.columns /\ "Longitude" \in d.columns)

(* correct_addresses, lines 246-291: one iteration of the loop.  A key in  *)
(* the cache is answered from it; otherwise the provider is called, and    *)
(* either raises (nothing is cached) or returns a result, which is cached  *)
(* and merged into the row.  Whatever is raised inside the try block is    *)
(* caught at line 285 and the loop goes on.                                *)
GeocodeRow ==
    /\ addr_pc = "geocode"
    /\ fix_pos <= Len(to_fix)
    /\ LET idx == to_fix[fix_pos]
           key == QueryKey(adf.rows[idx])
       IN  \/ /\ key \in DOMAIN cache
              /\ adf' = Merged(adf, idx, cache[key])
              /\ float_failed' = IF MergeRaises(adf, cache[key])
                                 THEN float_failed \cup {idx} ELSE float_failed
              /\ UNCHANGED <<cache, calls, geo_failed, rate_limited>>
           \/ /\ key \notin DOMAIN cache
              /\ \E err \in ProviderErrors :
                    rate_limited' = IF err = "HTTPError 429"
                                    THEN rate_limited \cup {idx} ELSE rate_limited
              /\ calls' = Append(calls, [idx |-> idx, key |-> key])
              /\ geo_failed' = geo_failed \cup {idx}
              /\ UNCHANGED <<adf, cache, float_failed>>
           \/ /\ key \notin DOMAIN cache
              /\ \E res \in GeocodeResults :
                    /\ cache' = [k \in (DOMAIN cache) \cup {key} |->
                                    IF k = key THEN res ELSE cache[k]]
                    /\ adf' = Merged(adf, idx, res)
                    /\ float_failed' = IF MergeRaises(adf, res)
                                       THEN float_failed \cup {idx} ELSE float_failed
              /\ calls' = Append(calls, [idx |-> idx, key |-> key])
              /\ UNCHANGED <<geo_failed, rate_limited>>
    /\ df_parsed' = CallerFrame(df_parsed, adf')
    /\ fix_pos' = fix_pos + 1
    /\ UNCHANGED <<adf_in, fix_cap, api_key, issue_inds, critical_inds, minor_inds,
                   to_fix, still_bad, result, addr_pc, addr_exc, poolVars, extVars>>

\* correct_addresses, lines 293-295: the whole frame is validated again
CorrectAddressesReturn ==
    /\ addr_pc = "geocode"
    /\ fix_pos > Len(to_fix)
    /\ still_bad' = validate_parsed_addresses(adf)
    /\ addr_pc' = "drop_still_bad"
    /\ UNCHANGED <<adf_in, adf, df_parsed, fix_cap, api_key, issue_inds, critical_inds,
                   minor_inds, to_fix, fix_pos, cache, calls, geo_failed, rate_limited,
                   float_failed, result, addr_exc, poolVars, extVars>>

\* clean_and_correct_addresses, lines 348-383
DropStillBad ==
    /\ addr_pc = "drop_still_bad"
    /\ adf' = IF still_bad # <<>> THEN DropRows(adf, still_bad) ELSE adf
    /\ result' = [rows_before |-> Len(adf_in.rows), rows_after |-> Len(adf'.rows),
                  initial_bad_rows |-> Len(issue_inds),
                  still_bad_rows |-> Len(still_bad)]
    /\ addr_pc' = "done"
    /\ UNCHANGED <<adf_in, df_parsed, fix_cap, api_key, issue_inds, critical_inds,
                   minor_inds, to_fix, fix_pos, cache, calls, geo_failed, rate_limited,
                   float_failed, still_bad, addr_exc, poolVars, extVars>>

MaxAddrRows == 2

MlsIds == <<"m1", "m2", "m3", "m4">>

StageAddresses == {"123 Main St|Toronto, ON M5V3A8", "9 Elm Rd|Barrie, ON"}

\* (Latitude, Longitude) as the listing source delivers them
StageCoords ==
    { <<NaN, NaN>>, <<<<0>>, <<0>>>>, <<<<0>>, <<-79>>>>, <<<<44>>, <<0>>>>,
      <<<<44>>, <<-79>>>> }

\* Tables with the coordinate columns, tables without them, a table without Address.
StageTables ==
    { [columns |-> {"MLS", "Address", "Latitude", "Longitude"},
       rows |-> [i \in 1..Len(rs) |->
                   [MLS |-> MlsIds[i], Address |-> rs[i][1],
                    Latitude |-> rs[i][2][1], Longitude |-> rs[i][2][2]]]] :
        rs \in SeqsUpTo(StageAddresses \X StageCoords, MaxAddrRows) }
    \cup
    { [columns |-> {"MLS", "Address"},
       rows |-> [i \in 1..Len(rs) |-> [MLS |-> MlsIds[i], Address |-> rs[i]]]] :
        rs \in SeqsUpTo(StageAddresses, MaxAddrRows) }
    \cup
    { [columns |-> {"MLS"}, rows |-> <<[MLS |-> MlsIds[1]]>>] }

AddrStart(tables) ==
    /\ adf_in \in tables
    /\ adf = adf_in
    /\ df_parsed = EmptyFrame
    /\ fix_cap = 0
    /\ rate_limited = {}
    /\ float_failed = {}
    /\ api_key \in {"", "key"}
    /\ issue_inds = <<>>
    /\ critical_inds = <<>>
    /\ minor_inds = <<>>
    /\ to_fix = <<>>
    /\ fix_pos = 0
    /\ cache = <<>>
    /\ calls = <<>>
    /\ geo_failed = {}
    /\ still_bad = <<>>
    /\ result = NoResult
    /\ addr_pc = "clean_addresses"
    /\ addr_exc = "none"

InitStage == PoolIdle /\ ExtIdle /\ AddrStart(StageTables)

NextStage ==
    \/ CleanAddresses
    \/ CategorizeAddressIssues
    \/ CorrectAddressesCall
    \/ CorrectAddressesEntry
    \/ GeocodeRow
    \/ CorrectAddressesReturn
    \/ DropStillBad

SpecStage == InitStage /\ [][NextStage]_vars

(* Addresses for the parser, composed as "<street>|<city>, <province> <postal>"  *)
(* from parts that carry the value each part stands for.                   *)
ParseStreets ==
    { [text |-> "123 Main St", street |-> "123 Main St", number |-> "123"],
      [text |-> " 45 King Rd ", street |-> "45 King Rd", number |-> "45"],
      [text |-> "12B Oak Ave", street |-> "12B Oak Ave", number |-> "12"],
      [text |-> "Main St", street |-> "Main St", number |-> None] }

ParseCities ==
    { [text |-> "Toronto", city |-> "Toronto"],
      [text |-> "Caledon (Palgrave)", city |-> "Caledon"] }

ParseProvinces ==
    { [text |-> "ON", name |-> None],
      [text |-> "QC", name |-> None],
      [text |-> "Ontario", name |-> "Ontario"],
      [text |-> "British Columbia", name |-> "British Columbia"],
      [text |-> "Province of Quebec", name |-> "Quebec"] }

ParsePostals ==
    { [text |-> "M5V3A8", code |-> "M5V3A8", canonical |-> TRUE],
      [text |-> "M5V 3A8", code |-> "M5V3A8", canonical |-> FALSE],
      [text |-> "m5v-3a8", code |-> "M5V-3A8", canonical |-> FALSE],
      [text |-> "", code |-> None, canonical |-> TRUE] }

ParseParts ==
    [street : ParseStreets, city : ParseCities, province : ParseProvinces,
     postal : ParsePostals]

Compose(p) ==
    p.street.text \o "|" \o p.city.text \o ", " \o p.province.text
        \o (IF p.postal.text = "" THEN "" ELSE " " \o p.postal.text)

\* One-row tables without coordinate columns.
ParseTables ==
    { [columns |-> {"MLS", "Address"},
       rows |-> <<[MLS |-> MlsIds[1], Address |-> a]>>] :
        a \in { Compose(p) : p \in ParseParts } \cup {"123 Main St Toronto", None} }

InitParse == PoolIdle /\ ExtIdle /\ AddrStart(ParseTables)

SpecParse == InitParse /\ [][NextStage]_vars

(* correct_addresses called on its own: any parsed table, any list of      *)
(* distinct indexes (one of them may be absent from the table), any cap.   *)
MaxFixArg == 2

MaxIssueInds == 2

CorrectTables ==
    { [columns |-> {"MLS", "Address", "Latitude", "Longitude"},
       rows |-> [i \in 1..Len(rs) |->
                   [MLS |-> MlsIds[i], Address |-> rs[i],
                    Latitude |-> NaN, Longitude |-> NaN]]] :
        rs \in SeqsUpTo(StageAddresses, MaxAddrRows) }
    \cup
    { [columns |-> {"MLS", "Address"},
       rows |-> [i \in 1..Len(rs) |-> [MLS |-> MlsIds[i], Address |-> rs[i]]]] :
        rs \in SeqsUpTo(StageAddresses, MaxAddrRows) \ {<<>>} }

\* The lists of distinct indexes of a table of n rows, and of the index n + 1.
IndexLists(n) ==
    { inds \in SeqsUpTo(1..(n + 1), MaxIssueInds) :
        \A i, j \in 1..Len(inds) : i # j => inds[i] # inds[j] }

InitCorrect ==
    /\ PoolIdle
    /\ ExtIdle
    /\ adf_in \in CorrectTables
    /\ df_parsed = (IF IsEmpty(adf_in) THEN EmptyFrame ELSE ParsedFrame(adf_in))
    /\ adf = df_parsed
    /\ fix_cap \in 0..MaxFixArg
    /\ api_key \in {"", "key"}
    /\ critical_inds \in IndexLists(Len(adf_in.rows))
    /\ issue_inds = <<>>
    /\ minor_inds = <<>>
    /\ to_fix = <<>>
    /\ fix_pos = 0
    /\ cache = <<>>
    /\ calls = <<>>
    /\ geo_failed = {}
    /\ rate_limited = {}
    /\ float_failed = {}
    /\ still_bad = <<>>
    /\ result = NoResult
    /\ addr_pc = "correct_addresses_entry"
    /\ addr_exc = "none"

NextCorrect == CorrectAddressesEntry \/ GeocodeRow \/ CorrectAddressesReturn

SpecCorrect == InitCorrect /\ [][NextCorrect]_vars

-----------------------------------------------------------------------------
(* include/transform/address_geocoding.py: batch_geocode_pools and         *)
(* geocode_pool_location.                                                  *)

MaxPools == 3

\* The address components geocode_pool_location builds from a response.
PoolAddressComponents ==
    { [street_number |-> "9", route |-> "Elm Rd", locality |-> "Barrie",
       postal_code |-> "L4N1A1"],
      [street_number |-> None, route |-> None, locality |-> "Barrie",
       postal_code |-> None] }

(* What a request of geocode_pool_location comes to: a response with       *)
(* results, a response without results, a timeout, an HTTP error status    *)
(* raised by raise_for_status, or any other exception.                     *)
RequestOutcomes ==
    {"results", "no results", "Timeout", "HTTPError 429", "HTTPError 500", "Exception"}

\* geocode_pool_location, lines 67-78: the outcomes it lets out as an exception
Reraised(outcome) == outcome = "HTTPError 429"

PoolRows == { [lat |-> 44, lon |-> -79], [lat |-> 45, lon |-> -75] }

InitBatch ==
    /\ PoolIdle
    /\ AddrIdle
    /\ MatchIdle
    /\ CleanIdle
    /\ LateIdle
    /\ pools_df \in SeqsUpTo(PoolRows, MaxPools)
    /\ batch_key \in {"", "key"}
    /\ batch_pos = 1
    /\ geocoded_results = <<>>
    /\ success_count = 0
    /\ batch_calls = <<>>
    /\ batch_pc = "get_geocodio_api_key"
    /\ batch_exc = "none"

\* batch_geocode_pools, line 104, and get_geocodio_api_key
GetGeocodioApiKey ==
    /\ batch_pc = "get_geocodio_api_key"
    /\ IF batch_key = ""
       THEN batch_pc' = "raised" /\ batch_exc' = "ValueError"
       ELSE batch_pc' = "geocode_pool_location" /\ UNCHANGED batch_exc
    /\ UNCHANGED <<pools_df, batch_key, batch_pos, geocoded_results, success_count,
                   batch_calls, poolVars, addrVars, matchVars, cleanVars, lateVars>>

(* batch_geocode_pools, lines 110-133: one iteration, with the call of     *)
(* geocode_pool_location.  A 429 leaves geocode_pool_location and, there   *)
(* being no handler in the loop, batch_geocode_pools.                      *)
GeocodePoolLocation ==
    /\ batch_pc = "geocode_pool_location"
    /\ batch_pos <= Len(pools_df)
    /\ \E outcome \in RequestOutcomes :
        /\ batch_calls' = Append(batch_calls, [row |-> batch_pos, outcome |-> outcome])
        /\ IF Reraised(outcome)
           THEN /\ batch_pc' = "raised"
                /\ batch_exc' = "HTTPError"
                /\ UNCHANGED <<batch_pos, geocoded_results, success_count>>
           ELSE /\ batch_pos' = batch_pos + 1
                /\ UNCHANGED <<batch_pc, batch_exc>>
                /\ IF outcome = "results"
                   THEN \E comps \in PoolAddressComponents :
                          /\ geocoded_results' =
                               Append(geocoded_results,
                                      [lat |-> pools_df[batch_pos].lat,
                                       lon |-> pools_df[batch_pos].lon,
                                       address |-> <<comps>>])
                          /\ success_count' = success_count + 1
                   ELSE /\ geocoded_results' =
                               Append(geocoded_results,
                                      [lat |-> pools_df[batch_pos].lat,
                                       lon |-> pools_df[batch_pos].lon,
                                       address |-> <<>>])
                        /\ UNCHANGED success_count
    /\ UNCHANGED <<pools_df, batch_key, poolVars, addrVars, matchVars, cleanVars, lateVars>>

\* batch_geocode_pools, lines 135-153
BatchReturn ==
    /\ batch_pc = "geocode_pool_location"
    /\ batch_pos > Len(pools_df)
    /\ batch_pc' = "done"
    /\ UNCHANGED <<pools_df, batch_key, batch_pos, geocoded_results, success_count,
                   batch_calls, batch_exc, poolVars, addrVars, matchVars, cleanVars, lateVars>>

NextBatch == GetGeocodioApiKey \/ GeocodePoolLocation \/ BatchReturn

SpecBatch == InitBatch /\ [][NextBatch]_vars

-----------------------------------------------------------------------------
(* include/transform/client_data_transform.py: the matching of a listing   *)
(* address to a property of the master store.                              *)

\* str.split(): the words of a text
RECURSIVE Words(_)
Words(text) ==
    LET t == LStrip(text)
        ends == { i \in 1..Len(t) : IsSpace(Char(t, i)) }
        stop == IF ends = {} THEN Len(t) + 1 ELSE CHOOSE i \in ends : \A j \in ends : i <= j
    IN  IF t = "" THEN <<>>
        ELSE <<SubSeq(t, 1, stop - 1)>> \o Words(SubSeq(t, stop, Len(t)))

\* ' '.join(words)
RECURSIVE JoinWords(_)
JoinWords(words) ==
    IF words = <<>> THEN ""
    ELSE IF Len(words) = 1 THEN words[1]
    ELSE words[1] \o " " \o JoinWords(Tail(words))

\* word.rstrip('.,;')
RECURSIVE RStripPunct(_)
RStripPunct(w) ==
    IF w # "" /\ Char(w, Len(w)) \in {".", ",", ";"}
    THEN RStripPunct(SubSeq(w, 1, Len(w) - 1)) ELSE w

\* street_types, lines 54-61: the replacements of a word, {} for a word that is no key
street_types(w) ==
    CASE w = "st" -> {"street", "st"}
      [] w = "ave" -> {"avenue", "ave"}
      [] w = "rd" -> {"road", "rd"}
      [] w = "blvd" -> {"boulevard", "blvd"}
      [] w = "dr" -> {"drive", "dr"}
      [] w = "ct" -> {"court", "ct"}
      [] w = "ln" -> {"lane", "ln"}
      [] w = "pl" -> {"place", "pl"}
      [] w = "cir" -> {"circle", "cir"}
      [] w = "way" -> {"way"}
      [] w = "pkwy" -> {"parkway", "pkwy"}
      [] w = "hwy" -> {"highway", "hwy"}
      [] w = "sq" -> {"square", "sq"}
      [] w = "ter" -> {"terrace", "ter"}
      [] w = "trl" -> {"trail", "trl"}
      [] w \in {"cres", "crescent"} -> {"crescent", "cres"}
      [] OTHER -> {}

\* directionals, lines 64-68
directionals(w) ==
    CASE w \in {"n", "north"} -> {"north", "n"}
      [] w \in {"s", "south"} -> {"south", "s"}
      [] w \in {"e", "east"} -> {"east", "e"}
      [] w \in {"w", "west"} -> {"west", "w"}
      [] w = "ne" -> {"northeast", "ne"}
      [] w = "nw" -> {"northwest", "nw"}
      [] w = "se" -> {"southeast", "se"}
      [] w = "sw" -> {"southwest", "sw"}
      [] OTHER -> {}

\* expand_address_variants without the lower-case forms.
expand_address_variants_CaseKept(text) ==
    LET words == Words(text)
    IN  {text} \cup
        UNION { { JoinWords([words EXCEPT ![i] = r]) :
                    r \in street_types(RStripPunct(StrLower(words[i])))
                          \cup directionals(RStripPunct(StrLower(words[i]))) } :
                i \in 1..Len(words) }

(* expand_address_variants, lines 70-95: the text, and the text with one   *)
(* word replaced by one of its replacements, each as written and in lower  *)
(* case.                                                                   *)
expand_address_variants(text) ==
    LET words == Words(text)
        replaced ==
            UNION { { JoinWords([words EXCEPT ![i] = r]) :
                        r \in street_types(RStripPunct(StrLower(words[i])))
                              \cup directionals(RStripPunct(StrLower(words[i]))) } :
                    i \in 1..Len(words) }
    IN  {text, StrLower(text)} \cup replaced \cup { StrLower(v) : v \in replaced }

\* A value is truthy: neither None nor ''.
Given(v) == v # None /\ v # ""

\* ", ".join(parts)
RECURSIVE JoinComma(_)
JoinComma(parts) ==
    IF parts = <<>> THEN ""
    ELSE IF Len(parts) = 1 THEN parts[1]
    ELSE parts[1] \o ", " \o JoinComma(Tail(parts))

\* normalize_address_for_matching, lines 34-116
normalize_address_for_matching(address_number, street_name, postal_code, municipality) ==
    LET parts == (IF Given(address_number) THEN <<address_number>> ELSE <<>>)
                 \o (IF Given(street_name) THEN <<street_name>> ELSE <<>>)
                 \o (IF Given(municipality) THEN <<municipality>> ELSE <<>>)
                 \o (IF Given(postal_code) THEN <<postal_code>> ELSE <<>>)
                 \o <<"Canada">>
        full_address == JoinComma(parts)
        base_address == Strip(PyStr(address_number) \o " " \o PyStr(street_name))
        address_formats ==
            { base_address,
              IF Given(municipality)
              THEN PyStr(address_number) \o " " \o PyStr(street_name) \o " " \o municipality
              ELSE base_address,
              IF Given(postal_code)
              THEN PyStr(address_number) \o " " \o PyStr(street_name) \o " " \o postal_code
              ELSE base_address,
              full_address }
        variations == UNION { expand_address_variants(Strip(f)) :
                                f \in { f \in address_formats : f # "" } }
    IN  { JoinWords(Words(v)) : v \in { v \in variations : Strip(v) # "" } }

\* The result of a call that found no property.
NoMatch == [property_id |-> None, strategy |-> None]

\* The orders in which a query without ORDER BY can return the rows S.
Orderings(S) ==
    { order \in [1..Cardinality(S) -> S] :
        \A i, j \in 1..Cardinality(S) : i # j => order[i] # order[j] }

\* The rows of properties with WHERE postal_code = %s, lines 194-205
Candidates(props, postal_code) == { c \in props : c.postal_code = postal_code }

\* match_property_by_address, lines 214-229: the first candidate whose
\* expansions intersect the listing's, NoMatch when there is none
RECURSIVE FirstIntersecting(_, _)
FirstIntersecting(candidates, listing_expansions) ==
    IF candidates = <<>> THEN NoMatch
    ELSE LET candidate == Head(candidates)
             candidate_expansions ==
                 normalize_address_for_matching(candidate.address_number,
                     candidate.street_name, candidate.postal_code, candidate.municipality)
         IN  IF listing_expansions \cap candidate_expansions # {}
             THEN [property_id |-> candidate.property_id, strategy |-> "address_expansion"]
             ELSE FirstIntersecting(Tail(candidates), listing_expansions)

(* ST_Distance on geography is a distance in metres.  Positions are metres *)
(* east and north of a common origin; distances are compared by their      *)
(* squares.                                                                *)
DistanceSq(c, lat, lon) == (c.y - lat) * (c.y - lat) + (c.x - lon) * (c.x - lon)

(* match_property_by_coordinates, lines 138-165: the rows the query can    *)
(* return, one of the nearest within radius_m (LIMIT 1 picks any of the    *)
(* rows at the same distance), none when no property is within the radius. *)
match_property_by_coordinates(props, lat, lon, radius_m) ==
    LET within == { c \in props : DistanceSq(c, lat, lon) <= radius_m * radius_m }
    IN  { c \in within :
            \A d \in within : DistanceSq(c, lat, lon) <= DistanceSq(d, lat, lon) }

\* match_property_by_address with the coordinate strategy tried first.
match_property_by_address_CoordinatesFirst(props, candidates, l) ==
    LET near == IF l.lat # NaN /\ l.lon # NaN
                THEN match_property_by_coordinates(props, l.lat[1], l.lon[1], 50)
                ELSE {}
        textual == FirstIntersecting(candidates,
                       normalize_address_for_matching(l.address_number, l.street_name,
                                                      l.postal_code, l.municipality))
    IN  IF near # {}
        THEN { [property_id |-> c.property_id, strategy |-> "coordinate_proximity"] :
                 c \in near }
        ELSE {textual}

(* match_property_by_address, lines 190-238, for the candidates in the     *)
(* order the store returned them: the results the call can return.         *)
match_property_by_address(props, candidates, l) ==
    LET listing_expansions ==
            normalize_address_for_matching(l.address_number, l.street_name,
                                           l.postal_code, l.municipality)
        textual == FirstIntersecting(candidates, listing_expansions)
    IN  IF textual # NoMatch THEN {textual}
        ELSE IF l.lat # NaN /\ l.lon # NaN
                  /\ match_property_by_coordinates(props, l.lat[1], l.lon[1], 50) # {}
        THEN { [property_id |-> c.property_id, strategy |-> "coordinate_proximity"] :
                 c \in match_property_by_coordinates(props, l.lat[1], l.lon[1], 50) }
        ELSE {NoMatch}

MaxProperties == 2

MaxMatchCalls == 2

\* Properties of the master store, with their position in metres.
PropertyCatalogue ==
    { [property_id |-> "p1", address_number |-> "123", street_name |-> "St Ave",
       municipality |-> "Toronto", postal_code |-> "M5V3A8", x |-> 0, y |-> 30],
      [property_id |-> "p2", address_number |-> "123", street_name |-> "Street Ave",
       municipality |-> None, postal_code |-> "M5V3A8", x |-> 30, y |-> 0],
      [property_id |-> "p3", address_number |-> "123", street_name |-> "St Avenue",
       municipality |-> "Toronto", postal_code |-> "M5V3A8", x |-> 40, y |-> 30],
      [property_id |-> "p4", address_number |-> "123", street_name |-> "Street Avenue",
       municipality |-> "Toronto", postal_code |-> "M5V3A8", x |-> 0, y |-> 60],
      [property_id |-> "p5", address_number |-> "125", street_name |-> "St Ave",
       municipality |-> "Toronto", postal_code |-> "M5V3A8", x |-> 0, y |-> 10],
      [property_id |-> "p6", address_number |-> "9", street_name |-> "Oak Road",
       municipality |-> "Barrie", postal_code |-> "L4N1A1", x |-> 50, y |-> 1] }

\* The coordinates of a listing: both, one of them, none.
ListingCoords == { <<NaN, NaN>>, <<<<0>>, NaN>>, <<NaN, <<0>>>>, <<<<0>>, <<0>>>> }

\* The addresses match_existing_properties calls the matcher with (lines 277-293).
Listings ==
    { [address_number |-> "123", street_name |-> "St Avenue", postal_code |-> "M5V3A8",
       municipality |-> "Toronto", lat |-> c[1], lon |-> c[2]] : c \in ListingCoords }
    \cup
    { [address_number |-> "123", street_name |-> "Street Ave", postal_code |-> "M5V3A8",
       municipality |-> None, lat |-> c[1], lon |-> c[2]] :
         c \in { <<NaN, NaN>>, <<<<0>>, <<0>>>> } }
    \cup
    { [address_number |-> "9", street_name |-> "Oak Rd", postal_code |-> pc,
       municipality |-> "Barrie", lat |-> c[1], lon |-> c[2]] :
         pc \in {"L4N1A1", "M5V3A8"}, c \in { <<<<0>>, NaN>>, <<<<0>>, <<0>>>> } }

InitMatch ==
    /\ PoolIdle
    /\ AddrIdle
    /\ BatchIdle
    /\ CleanIdle
    /\ LateIdle
    /\ properties \in { ps \in SUBSET PropertyCatalogue : Cardinality(ps) <= MaxProperties }
    /\ listing \in Listings
    /\ match_results = <<>>

(* One call of match_property_by_address for the listing.  The store       *)
(* returns the candidates in an order of its choosing.                     *)
MatchPropertyByAddress ==
    /\ Len(match_results) < MaxMatchCalls
    /\ \E candidates \in Orderings(Candidates(properties, listing.postal_code)) :
          \E r \in match_property_by_address(properties, candidates, listing) :
              match_results' = Append(match_results, r)
    /\ UNCHANGED <<properties, listing, poolVars, addrVars, geoVars, cleanVars, lateVars>>

NextMatch == MatchPropertyByAddress

SpecMatch == InitMatch /\ [][NextMatch]_vars

-----------------------------------------------------------------------------
(* include/transform/stage_address_cleaning.py: the cleaning steps of      *)
(* clean_and_transform_data.                                               *)

\* str.title(): a letter is upper-cased after a non-letter, lower-cased after a letter
RECURSIVE TitleFrom(_, _)
TitleFrom(s, after_letter) ==
    IF s = "" THEN ""
    ELSE LET c == Char(s, 1)
         IN  (IF ~IsAlpha(c) THEN c ELSE IF after_letter THEN LowerChar(c) ELSE UpperChar(c))
                 \o TitleFrom(Tail(s), IsAlpha(c))

Title(s) == TitleFrom(s, FALSE)

\* fillna('')
FillNa(v) == IF v = None THEN "" ELSE v

\* standardize_text_fields, lines 32-37, for one row
StandardizeRow(row) ==
    [row EXCEPT !["postal_code"] = RemoveAll(StrUpper(FillNa(@)), " "),
                !["street_name"] = Title(Strip(FillNa(@))),
                !["municipality"] = Title(Strip(FillNa(@)))]

\* DataFrame.duplicated(subset, keep='first'): an earlier row has the same
\* values in the columns of subset (null values compare equal)
Duplicated(rows, i, subset) ==
    \E j \in 1..(i - 1) : \A c \in subset : rows[j][c] = rows[i][c]

\* The mask of remove_internal_duplicates with the two keys joined by "and".
DuplicateMask_BothKeys(rows, i) ==
    /\ Duplicated(rows, i, {"street_name", "address_number", "municipality"})
    /\ Duplicated(rows, i, {"street_name", "address_number", "postal_code"})

\* remove_internal_duplicates, lines 57-60: mask, for the row at i
DuplicateMask(rows, i) ==
    \/ Duplicated(rows, i, {"street_name", "address_number", "municipality"})
    \/ Duplicated(rows, i, {"street_name", "address_number", "postal_code"})

\* df[keep]: the rows at the positions of keep, in their order
RowsAt(rows, keep) ==
    LET kept == SortedSeq(keep) IN [j \in 1..Len(kept) |-> rows[kept[j]]]

\* remove_internal_duplicates, lines 57-67
remove_internal_duplicates(d) ==
    [columns |-> d.columns,
     rows |-> RowsAt(d.rows, { i \in 1..Len(d.rows) : ~DuplicateMask(d.rows, i) })]

\* filter_invalid_records, lines 89-106: the row passes every filter
IsValidRecord(row) ==
    /\ row["address_number"] # None
    /\ Strip(row["address_number"]) # ""
    /\ row["street_name"] # None
    /\ Strip(row["street_name"]) # ""
    /\ ~IsNa(row["lat_addr"]) /\ ~IsNa(row["lon_addr"])
    /\ row["lat_addr"][1] >= -90 /\ row["lat_addr"][1] <= 90
    /\ row["lon_addr"][1] >= -180 /\ row["lon_addr"][1] <= 180
    /\ (row["municipality"] # None \/ row["postal_code"] # None)

\* filter_invalid_records, lines 85-112
filter_invalid_records(d) ==
    [columns |-> d.columns,
     rows |-> RowsAt(d.rows, { i \in 1..Len(d.rows) : IsValidRecord(d.rows[i]) })]

CleanColumns ==
    {"address_number", "street_name", "municipality", "postal_code", "lat_addr", "lon_addr"}

\* clean_and_transform_data, line 245
StandardizeTextFields ==
    /\ clean_pc = "standardize_text_fields"
    /\ cdf' = [columns |-> cdf.columns,
               rows |-> [i \in 1..Len(cdf.rows) |-> StandardizeRow(cdf.rows[i])]]
    /\ clean_pc' = "remove_internal_duplicates"
    /\ UNCHANGED <<cdf_in, dedup_first, poolVars, addrVars, geoVars, matchVars, lateVars>>

\* clean_and_transform_data, line 249
RemoveInternalDuplicates ==
    /\ clean_pc = "remove_internal_duplicates"
    /\ cdf' = remove_internal_duplicates(cdf)
    /\ dedup_first' = cdf'
    /\ clean_pc' = "filter_invalid_records"
    /\ UNCHANGED <<cdf_in, poolVars, addrVars, geoVars, matchVars, lateVars>>

\* clean_and_transform_data, line 252
FilterInvalidRecords ==
    /\ clean_pc = "filter_invalid_records"
    /\ cdf' = filter_invalid_records(cdf)
    /\ clean_pc' = "done"
    /\ UNCHANGED <<cdf_in, dedup_first, poolVars, addrVars, geoVars, matchVars, lateVars>>

\* remove_internal_duplicates applied to its own output.
RemoveInternalDuplicatesAgain ==
    /\ clean_pc = "filter_invalid_records"
    /\ cdf' = remove_internal_duplicates(cdf)
    /\ clean_pc' = "applied_twice"
    /\ UNCHANGED <<cdf_in, dedup_first, poolVars, addrVars, geoVars, matchVars, lateVars>>

MaxCleanRows == 2

\* A valid record and records with one defect each.
CleanRows ==
    LET valid == [address_number |-> "12", street_name |-> " main st ",
                  municipality |-> "toronto", postal_code |-> "m5v 3a8",
                  lat_addr |-> <<44>>, lon_addr |-> <<-79>>]
    IN  { valid,
          [valid EXCEPT !["address_number"] = None],
          [valid EXCEPT !["address_number"] = "  "],
          [valid EXCEPT !["street_name"] = None],
          [valid EXCEPT !["street_name"] = "  "],
          [valid EXCEPT !["lat_addr"] = NaN],
          [valid EXCEPT !["lon_addr"] = NaN],
          [valid EXCEPT !["lat_addr"] = <<91>>],
          [valid EXCEPT !["lon_addr"] = <<-181>>],
          [valid EXCEPT !["lat_addr"] = <<-90>>, !["lon_addr"] = <<180>>],
          [valid EXCEPT !["municipality"] = None],
          [valid EXCEPT !["postal_code"] = None],
          [valid EXCEPT !["municipality"] = None, !["postal_code"] = None],
          [valid EXCEPT !["street_name"] = "oak rd", !["municipality"] = None,
                        !["postal_code"] = None] }

CleanStart(rowsets, pc) ==
    /\ PoolIdle
    /\ AddrIdle
    /\ BatchIdle
    /\ MatchIdle
    /\ LateIdle
    /\ cdf_in \in { [columns |-> CleanColumns, rows |-> rs] : rs \in rowsets }
    /\ cdf = cdf_in
    /\ dedup_first = EmptyFrame
    /\ clean_pc = pc

InitClean == CleanStart(SeqsUpTo(CleanRows, MaxCleanRows), "standardize_text_fields")

NextClean == StandardizeTextFields \/ RemoveInternalDuplicates \/ FilterInvalidRecords

SpecClean == InitClean /\ [][NextClean]_vars

MaxDedupRows == 3

\* Records that agree on one key, on the other, on both or on none.
DedupRows ==
    [address_number : {"12"}, street_name : {"Main St", "Oak Rd"},
     municipality : {"Toronto", "Barrie", None}, postal_code : {"M5V3A8", "L4N1A1"},
     lat_addr : {<<44>>}, lon_addr : {<<-79>>}]

InitDedup == CleanStart(SeqsUpTo(DedupRows, MaxDedupRows), "remove_internal_duplicates")

NextDedup == RemoveInternalDuplicates \/ RemoveInternalDuplicatesAgain

SpecDedup == InitDedup /\ [][NextDedup]_vars

-----------------------------------------------------------------------------
(* dags/stage_to_master_etl.py with include/extract/stage_data_extraction, *)
(* stage_address_cleaning.clean_and_transform_data and                     *)
(* include/load/master_db_load.py.  The stage store and the master store   *)
(* are the tables the tasks read and write; a run is the chain of tasks    *)
(* extract, fetch, merge, clean, load, update.                             *)

\* The rows of seq at the positions where keep holds, in their order.
SeqOfSet(seq, keep) == RowsAt(seq, keep)

\* extract_pending_assignments, lines 33-42, fetch_pool_and_address_details and
\* merge_assignment_data: the pending assignments with their pool and address
PendingRows ==
    SeqOfSet(assignment, { i \in 1..Len(assignment) : assignment[i]["id"] \notin uploaded })

\* clean_and_transform_data, lines 271-278: the master rows as the query returns them
MasterAddresses ==
    [i \in 1..Len(master_properties) |->
        [address_number |-> master_properties[i]["address_number"],
         street_name |-> master_properties[i]["street_name"],
         municipality |-> master_properties[i]["municipality"],
         postal_code |-> master_properties[i]["postal_code"]]]

\* remove_master_duplicates, lines 170-184: the mask, for one input row
InMaster(row, master_df) ==
    \/ \E j \in 1..Len(master_df) :
          /\ master_df[j]["street_name"] = row["street_name"]
          /\ master_df[j]["address_number"] = row["address_number"]
          /\ master_df[j]["municipality"] = row["municipality"]
    \/ \E j \in 1..Len(master_df) :
          /\ master_df[j]["street_name"] = row["street_name"]
          /\ master_df[j]["address_number"] = row["address_number"]
          /\ master_df[j]["postal_code"] = row["postal_code"]

\* remove_master_duplicates, lines 167-192
remove_master_duplicates(input_df, master_df) ==
    LET standardized == [j \in 1..Len(master_df) |-> StandardizeRow(master_df[j])]
    IN  SeqOfSet(input_df, { i \in 1..Len(input_df) : ~InMaster(input_df[i], standardized) })

\* clean_and_transform_data, lines 245-252: steps 1 to 3 on the rows of the merged table
CleanedRows(rows) ==
    filter_invalid_records(
        remove_internal_duplicates(
            [columns |-> CleanColumns,
             rows |-> [i \in 1..Len(rows) |-> StandardizeRow(rows[i])]])).rows

\* assign_address_ids: a fresh address_id per row; the random 63-bit number is
\* taken to be the one no other row has, here the row's assignment id
AddressId(row) == row["id"]

\* clean_and_transform_data, lines 254-302: the table that is saved
clean_and_transform_data(rows) ==
    LET filtered == CleanedRows(rows)
    IN  IF Len(filtered) = 0 THEN <<>>
        ELSE remove_master_duplicates(filtered, MasterAddresses)

\* load_addresses_to_master, lines 73-84: the row as it is inserted; the store
\* gives it the next id
PropertyRow(row, id) ==
    [id |-> id,
     address_id |-> AddressId(row),
     address_number |-> row["address_number"],
     street_name |-> row["street_name"],
     municipality |-> row["municipality"],
     postal_code |-> IF row["postal_code"] = "" THEN None ELSE row["postal_code"]]

\* load_pools_to_master, lines 149-157: the properties fetched for an address_id
PropertyMappings(address_id) ==
    { i \in 1..Len(master_properties) : master_properties[i]["address_id"] = address_id }

\* load_pools_to_master, line 160: the dict built from the fetched rows keeps the
\* last property of an address_id
AddressToProperty(address_id) ==
    LET at == PropertyMappings(address_id)
    IN  master_properties[CHOOSE i \in at : \A j \in at : j <= i]["id"]

\* extract_stage_assignments, fetch_details and merge_data of the DAG
ExtractStageAssignments ==
    /\ etl_pc \in {"scheduled", "completed"}
    /\ merged' = PendingRows
    /\ cleaned' = <<>>
    /\ assignment_ids' = <<>>
    /\ etl_pc' = "clean_and_filter_data"
    /\ UNCHANGED <<assignment, uploaded, master_properties, master_pools, interrupted,
                   insert_failed, etlRest>>

\* clean_and_filter_data of the DAG, lines 148-171
CleanAndFilterData ==
    /\ etl_pc = "clean_and_filter_data"
    /\ LET saved == IF Len(merged) = 0 THEN <<>> ELSE clean_and_transform_data(merged)
       IN  /\ cleaned' = saved
           /\ assignment_ids' = [i \in 1..Len(saved) |-> saved[i]["id"]]
    /\ etl_pc' = "load_addresses_to_master"
    /\ UNCHANGED <<assignment, uploaded, master_properties, master_pools, merged,
                   interrupted, insert_failed, etlRest>>

\* load_to_master_db, lines 185-197, with load_addresses_to_master: the rows whose
\* insert raised are counted and skipped; when the store has aborted the
\* transaction on a failed statement, the commit of line 93 commits nothing
LoadAddressesToMaster ==
    /\ etl_pc = "load_addresses_to_master"
    /\ IF Len(cleaned) = 0
       THEN /\ etl_pc' = "update_stage_status"
            /\ UNCHANGED <<master_properties, insert_failed>>
       ELSE \E failed \in SUBSET (1..Len(cleaned)), aborted \in BOOLEAN :
                /\ aborted => failed # {}
                /\ LET inserted == SeqOfSet(cleaned, (1..Len(cleaned)) \ failed)
                   IN  master_properties' =
                           IF aborted THEN master_properties
                           ELSE master_properties \o
                                    [i \in 1..Len(inserted) |->
                                        PropertyRow(inserted[i], Len(master_properties) + i)]
                /\ insert_failed' = (insert_failed \/ failed # {})
                /\ etl_pc' = "load_pools_to_master"
    /\ UNCHANGED <<assignment, uploaded, master_pools, merged, cleaned, assignment_ids,
                   interrupted, etlRest>>

\* load_to_master_db, line 201, with load_pools_to_master
LoadPoolsToMaster ==
    /\ etl_pc = "load_pools_to_master"
    /\ LET pool_df_upload ==
               SeqOfSet(cleaned, { i \in 1..Len(cleaned) :
                                     PropertyMappings(AddressId(cleaned[i])) # {} })
       IN  \E failed \in SUBSET (1..Len(pool_df_upload)), aborted \in BOOLEAN :
               /\ aborted => failed # {}
               /\ LET inserted == SeqOfSet(pool_df_upload, (1..Len(pool_df_upload)) \ failed)
                  IN  master_pools' =
                          IF aborted THEN master_pools
                          ELSE master_pools \o
                                   [i \in 1..Len(inserted) |->
                                       [property_id |-> AddressToProperty(AddressId(inserted[i])),
                                        pool_type |-> inserted[i]["pool_type"]]]
               /\ insert_failed' = (insert_failed \/ failed # {})
    /\ etl_pc' = "update_stage_status"
    /\ UNCHANGED <<assignment, uploaded, master_properties, merged, cleaned,
                   assignment_ids, interrupted, etlRest>>

\* update_stage_status of the DAG, lines 224-238, with update_stage_upload_status
UpdateStageStatus ==
    /\ etl_pc = "update_stage_status"
    /\ uploaded' = uploaded \cup Range(assignment_ids)
    /\ etl_pc' = "completed"
    /\ UNCHANGED <<assignment, master_properties, master_pools, merged, cleaned,
                   assignment_ids, interrupted, insert_failed, etlRest>>

\* The run stops (worker lost) after load_addresses_to_master has committed and
\* before update_stage_upload_status; the scheduler starts the next run.
Crash ==
    /\ etl_pc \in {"load_pools_to_master", "update_stage_status"}
    /\ Len(cleaned) > 0
    /\ interrupted' = interrupted \cup Range(assignment_ids)
    /\ merged' = <<>>
    /\ cleaned' = <<>>
    /\ assignment_ids' = <<>>
    /\ etl_pc' = "scheduled"
    /\ UNCHANGED <<assignment, uploaded, master_properties, master_pools, insert_failed,
                   etlRest>>

MaxAssignments == 3

\* Merged rows of the stage store: a valid address, the same address under
\* another spelling, a row without coordinates, and a second valid address.
StageRows ==
    LET a == [id |-> 1, address_number |-> "12", street_name |-> "main st",
              municipality |-> "toronto", postal_code |-> "m5v 3a8",
              lat_addr |-> <<44>>, lon_addr |-> <<-79>>, pool_type |-> "in_ground"]
    IN  { a,
          [a EXCEPT !["id"] = 2, !["street_name"] = "Main St ", !["pool_type"] = None],
          [a EXCEPT !["id"] = 3, !["street_name"] = "elm st", !["lat_addr"] = NaN],
          [a EXCEPT !["id"] = 4, !["street_name"] = "oak rd", !["postal_code"] = None] }

\* The tables of assignments: rows of StageRows in the order of their ids.
AssignmentTables ==
    { SeqOfSet([i \in 1..4 |-> CHOOSE r \in StageRows : r["id"] = i], ids) :
        ids \in { S \in SUBSET (1..4) : Cardinality(S) <= MaxAssignments } }

\* The master store before the first run: empty, or holding the second address
\* with its pool.
MasterStores ==
    { [properties |-> <<>>, pools |-> <<>>],
      [properties |-> <<[id |-> 1, address_id |-> 9, address_number |-> "12",
                         street_name |-> "Oak Rd", municipality |-> "Toronto",
                         postal_code |-> None]>>,
       pools |-> <<[property_id |-> 1, pool_type |-> "in_ground"]>>] }

InitEtl ==
    /\ PoolIdle
    /\ AddrIdle
    /\ BatchIdle
    /\ MatchIdle
    /\ CleanIdle
    /\ OsmIdle
    /\ LoadIdle
    /\ TailIdle
    /\ assignment \in AssignmentTables
    /\ uploaded = {}
    /\ \E store \in MasterStores :
          /\ master_properties = store.properties
          /\ master_pools = store.pools
    /\ merged = <<>>
    /\ cleaned = <<>>
    /\ assignment_ids = <<>>
    /\ interrupted = {}
    /\ insert_failed = FALSE
    /\ etl_pc = "scheduled"

\* The tasks of a run.
EtlRun ==
    \/ ExtractStageAssignments
    \/ CleanAndFilterData
    \/ LoadAddressesToMaster
    \/ LoadPoolsToMaster
    \/ UpdateStageStatus

NextEtl == EtlRun \/ Crash

SpecEtl == InitEtl /\ [][NextEtl]_vars

\* Crash-free runs, one after the other: the scheduler starts each task that is
\* ready (clean_and_filter_data is ready exactly at its position and leaves it).
SpecEtlRuns ==
    /\ InitEtl
    /\ [][EtlRun]_vars
    /\ WF_vars(ExtractStageAssignments)
    /\ []<>(etl_pc # "clean_and_filter_data")
    /\ WF_vars(LoadAddressesToMaster)
    /\ WF_vars(LoadPoolsToMaster)
    /\ WF_vars(UpdateStageStatus)

-----------------------------------------------------------------------------
(* include/extract/osm_pool_extraction.py: query_overpass_api.  A bounding *)
(* box is <<south, west, north, east>>, in metres of arc; a call is a      *)
(* frame of osm_stack.  The retry of line 173 is a tail call and is        *)
(* modelled as the same frame with retry_count + 1.                        *)

\* The default of the parameter max_retries, line 147
DefaultMaxRetries == 3

\* The minimum box size of line 187, in metres
MinBoxSize == 500

\* calculate_bbox_size_meters: <<width, height>>; the great-circle lengths of
\* the sides are the differences of the coordinates
calculate_bbox_size_meters(box) == <<box[4] - box[2], box[3] - box[1]>>

\* lines 207-213 with the second and third quadrant both on the western half.
Quadrants_WestTwice(box) ==
    LET mid_lat == (box[1] + box[3]) \div 2
        mid_lon == (box[2] + box[4]) \div 2
    IN  << <<box[1], box[2], mid_lat, mid_lon>>,
           <<mid_lat, box[2], box[3], mid_lon>>,
           <<mid_lat, box[2], box[3], mid_lon>>,
           <<mid_lat, mid_lon, box[3], box[4]>> >>

\* lines 207-213: the boxes of the four recursive calls, in the order of the calls
Quadrants(box) ==
    LET mid_lat == (box[1] + box[3]) \div 2
        mid_lon == (box[2] + box[4]) \div 2
    IN  << <<box[1], box[2], mid_lat, mid_lon>>,
           <<box[1], mid_lon, mid_lat, box[4]>>,
           <<mid_lat, box[2], box[3], mid_lon>>,
           <<mid_lat, mid_lon, box[3], box[4]>> >>

\* line 169 with the retry allowed once more.
MayRetry_Inclusive(retry_count, max_retries) == retry_count <= max_retries

\* line 169
MayRetry(retry_count, max_retries) == retry_count < max_retries

\* The elements the server holds for a box: one, tagged with the box.
Elements(box) == <<box>>

\* What a request can come to: a status code, a body that is no JSON, or an
\* exception of requests.post.
Responses == {"200", "200 invalid json", "429", "504", "500", "RequestException"}

\* A call of query_overpass_api entered, lines 146-147
Call(box, retry_count, max_retries) ==
    [box |-> box, retry_count |-> retry_count, max_retries |-> max_retries,
     pc |-> "post", posts |-> 0, final_posts |-> 0, called |-> <<>>,
     value |-> <<>>]

\* The innermost call.
Top == osm_stack[Len(osm_stack)]

\* The stack with the innermost call replaced.
WithTop(frame) == [osm_stack EXCEPT ![Len(osm_stack)] = frame]

\* The innermost call reaches a return statement with this value.
Returning(frame, value) == [frame EXCEPT !["pc"] = "return", !["value"] = value]

\* query_overpass_api, lines 159-227: the request and the branch it takes
PostQuery ==
    /\ osm_pc = "running"
    /\ Top["pc"] = "post"
    /\ \E response \in Responses :
          LET posted == [Top EXCEPT !["posts"] = @ + 1]
              size == calculate_bbox_size_meters(Top["box"])
              min_dimension == IF size[1] < size[2] THEN size[1] ELSE size[2]
          IN  CASE response = "RequestException" ->
                      /\ osm_stack' = WithTop(Returning(posted, <<>>))
                      /\ osm_events' = osm_events
                [] response = "429" /\ MayRetry(Top["retry_count"], Top["max_retries"]) ->
                      /\ osm_stack' = WithTop([posted EXCEPT !["retry_count"] = @ + 1])
                      /\ osm_events' = osm_events \cup {"retry"}
                [] response = "429" /\ ~MayRetry(Top["retry_count"], Top["max_retries"]) ->
                      /\ osm_stack' = WithTop(Returning(posted, <<>>))
                      /\ osm_events' = osm_events \cup {"rate limit exceeded"}
                [] response = "504" /\ min_dimension <= MinBoxSize ->
                      /\ osm_stack' = WithTop([posted EXCEPT !["pc"] = "final_retry"])
                      /\ osm_events' = osm_events \cup {"final retry"}
                [] response = "504" /\ min_dimension > MinBoxSize ->
                      /\ osm_stack' =
                             Append(WithTop([posted EXCEPT
                                                !["pc"] = "quadrants",
                                                !["called"] = <<Quadrants(Top["box"])[1]>>]),
                                    Call(Quadrants(Top["box"])[1], 0, DefaultMaxRetries))
                      /\ osm_events' = osm_events \cup {"subdivide"}
                [] response = "500" ->
                      /\ osm_stack' = WithTop(Returning(posted, <<>>))
                      /\ osm_events' = osm_events
                [] response = "200 invalid json" ->
                      /\ osm_stack' = WithTop(Returning(posted, <<>>))
                      /\ osm_events' = osm_events
                [] response = "200" ->
                      /\ osm_stack' = WithTop(Returning(posted, Elements(Top["box"])))
                      /\ osm_events' = osm_events
    /\ UNCHANGED <<osm_elements, osm_pc, osmRest>>

\* query_overpass_api, lines 190-203: the final retry after the long sleep
FinalRetry ==
    /\ osm_pc = "running"
    /\ Top["pc"] = "final_retry"
    /\ \E response \in Responses :
          LET posted == [Top EXCEPT !["final_posts"] = @ + 1]
          IN  osm_stack' =
                  WithTop(Returning(posted, IF response = "200" THEN Elements(Top["box"])
                                            ELSE <<>>))
    /\ UNCHANGED <<osm_elements, osm_events, osm_pc, osmRest>>

\* A call returns: to the caller, which adds the list to those of the quadrants
\* before it and calls the next quadrant (lines 209-214), or to the caller of
\* the outermost call.
ReturnElements ==
    /\ osm_pc = "running"
    /\ Top["pc"] = "return"
    /\ IF Len(osm_stack) = 1
       THEN /\ osm_elements' = Top["value"]
            /\ osm_stack' = <<>>
            /\ osm_pc' = "returned"
       ELSE LET caller == osm_stack[Len(osm_stack) - 1]
                below == SubSeq(osm_stack, 1, Len(osm_stack) - 2)
                sum == caller["value"] \o Top["value"]
                n == Len(caller["called"])
            IN  /\ osm_stack' =
                       IF n < 4
                       THEN below \o
                            <<[caller EXCEPT !["value"] = sum,
                                             !["called"] = Append(@, Quadrants(caller["box"])[n + 1])],
                              Call(Quadrants(caller["box"])[n + 1], 0, DefaultMaxRetries)>>
                       ELSE Append(below, Returning(caller, sum))
                /\ UNCHANGED <<osm_elements, osm_pc>>
    /\ UNCHANGED <<osm_events, osmRest>>

MaxRetriesArg == 3

\* Boxes at the minimum size, above it on one side, and above it on both.
OsmBoxes == { <<0, 0, 400, 2000>>, <<0, 0, 1000, 1000>>, <<1000, 2000, 3000, 3000>> }

InitOsm ==
    /\ PoolIdle
    /\ AddrIdle
    /\ BatchIdle
    /\ MatchIdle
    /\ CleanIdle
    /\ EtlIdle
    /\ LoadIdle
    /\ TailIdle
    /\ \E box \in OsmBoxes, max_retries \in 0..MaxRetriesArg :
          osm_stack = <<Call(box, 0, max_retries)>>
    /\ osm_elements = <<>>
    /\ osm_events = {}
    /\ osm_pc = "running"

NextOsm == PostQuery \/ FinalRetry \/ ReturnElements

\* The interpreter runs the call as long as it has a step to take.
SpecOsm == InitOsm /\ [][NextOsm]_vars /\ WF_vars(NextOsm)

-----------------------------------------------------------------------------
(* include/load/load_listings.py: load_listings_to_db and the statements   *)
(* it runs on one connection.  listing_db holds what is committed,         *)
(* listing_tx what the connection sees; commit copies the second into the  *)
(* first, rollback the first into the second.                              *)

\* _safe_int: None for a missing value or one int() rejects
SafeInt(val) ==
    IF val = None THEN None
    ELSE IF Strip(val) # "" /\ \A i \in 1..Len(Strip(val)) : IsDigit(Char(Strip(val), i))
         THEN Strip(val)
         ELSE None

\* prepare_load_data, lines 73-130: the row is appended to rows
IsLoaded(row) ==
    /\ row["MLS"] # None
    /\ SafeInt(row["address_number"]) # None
    /\ ~IsNa(row["Latitude"]) /\ ~IsNa(row["Longitude"])

\* prepare_load_data, lines 104-130: the row is appended to bad_rows
IsBadRow(row) == row["MLS"] # None /\ ~IsLoaded(row)

\* prepare_load_data, lines 151-176: the tuple for the store
StagingRow(row) ==
    [mls_id |-> Strip(row["MLS"]),
     street_name |-> row["street_address"],
     postal_code |-> row["postal_code"],
     price |-> row["Price"]]

\* prepare_load_data: rows
PreparedRows(d) ==
    LET kept == RowsAt(d, { i \in 1..Len(d) : IsLoaded(d[i]) })
    IN  [i \in 1..Len(kept) |-> StagingRow(kept[i])]

\* prepare_load_data, lines 178-180: the dict keeps the location of the last
\* loaded row of an mls_id that has one
MlsToLocation(d) ==
    LET tracked == { i \in 1..Len(d) : IsLoaded(d[i]) /\ d[i]["search_location"] # None }
    IN  { <<Strip(d[i]["MLS"]), d[i]["search_location"]>> :
            i \in { k \in tracked :
                      \A j \in tracked : Strip(d[j]["MLS"]) = Strip(d[k]["MLS"]) => j <= k } }

\* load_to_staging: TRUNCATE, then the bulk insert
load_to_staging(db, rows) == [db EXCEPT !["listing_staging"] = rows]

\* upsert_new_listings, lines 282-291: the staging rows whose mls_id no row of
\* listing has when the statement starts
NewListings(db) ==
    RowsAt(db["listing_staging"],
           { i \in 1..Len(db["listing_staging"]) :
               \A k \in 1..Len(db["listing"]) :
                   db["listing"][k]["mls_id"] # db["listing_staging"][i]["mls_id"] })

(* listing.mls_id is the key the foreign key of listing_search_location    *)
(* refers to (line 449), so the store keeps it unique: an INSERT that      *)
(* brings two rows with one mls_id raises psycopg2.IntegrityError, which   *)
(* is handled at lines 484-487.                                            *)
DuplicateKey(rows) ==
    \E i, j \in 1..Len(rows) : i < j /\ rows[i]["mls_id"] = rows[j]["mls_id"]

\* upsert_new_listings
upsert_new_listings(db) == [db EXCEPT !["listing"] = @ \o NewListings(db)]

\* filter_valid_mls_ids: the entries whose mls_id is in listing
filter_valid_mls_ids(db, mapping) ==
    { e \in mapping : \E k \in 1..Len(db["listing"]) : db["listing"][k]["mls_id"] = e[1] }

\* update_search_location_tracking, lines 257-267: insert, or last_seen on conflict
update_search_location_tracking(db, mapping, ts) ==
    [db EXCEPT !["listing_search_location"] =
        { IF <<t["mls_id"], t["search_location"]>> \in mapping
          THEN [t EXCEPT !["last_seen"] = ts] ELSE t : t \in @ }
        \cup { [mls_id |-> e[1], search_location |-> e[2], first_seen |-> ts, last_seen |-> ts] :
                 e \in { e \in mapping :
                           \A t \in @ : <<t["mls_id"], t["search_location"]>> # e } }]

\* detect_removed_listings, lines 318-336: the pairs the statement inserts
RemovedFromAreas(db, ts, locations) ==
    { <<t["mls_id"], t["search_location"]>> :
        t \in { t \in db["listing_search_location"] :
                  /\ t["search_location"] \in locations
                  /\ t["last_seen"] < ts
                  /\ \A r \in db["listing_removal"] :
                        ~(r["mls_id"] = t["mls_id"]
                          /\ r["search_location"] = t["search_location"]) } }

\* detect_removed_listings
detect_removed_listings(db, ts, locations) ==
    [db EXCEPT !["listing_removal"] =
        @ \cup { [mls_id |-> e[1], search_location |-> e[2], removal_date |-> ts] :
                   e \in RemovedFromAreas(db, ts, locations) }]

\* detect_relistings, lines 358-391: the pairs the statement inserts; locality is
\* null in every row, so a score of 2 needs the street and the postal code
Relisted(db) ==
    { <<db["listing"][k]["mls_id"], db["listing_staging"][i]["mls_id"]>> :
        <<k, i>> \in
            { ki \in (1..Len(db["listing"])) \X (1..Len(db["listing_staging"])) :
                LET oh == db["listing"][ki[1]]
                    st == db["listing_staging"][ki[2]]
                IN  /\ \E r \in db["listing_removal"] : r["mls_id"] = oh["mls_id"]
                    /\ st["street_name"] # None /\ st["street_name"] = oh["street_name"]
                    /\ st["postal_code"] # None /\ st["postal_code"] = oh["postal_code"]
                    /\ ~IsNa(st["price"]) /\ ~IsNa(oh["price"]) /\ st["price"] # oh["price"]
                    /\ \A x \in db["re_listing"] :
                          ~(x["mls_id"] = oh["mls_id"] /\ x["re_listing_id"] = st["mls_id"]) } }

\* detect_relistings
detect_relistings(db) ==
    [db EXCEPT !["re_listing"] =
        @ \cup { [mls_id |-> e[1], re_listing_id |-> e[2]] : e \in Relisted(db) }]

MaxLoadRuns == 2

\* Tables as the transform pipeline hands them over: listings of two search
\* locations, one listing seen in both, rows without address number,
\* coordinates or search location, and a listing back at another price.
LoadTables ==
    LET a == [MLS |-> "A1", address_number |-> "12", Latitude |-> <<44>>,
              Longitude |-> <<-79>>, search_location |-> "CA-ON-Barrie",
              street_address |-> "12 Main St", postal_code |-> "L4N1A1", Price |-> <<500>>]
        b == [a EXCEPT !["MLS"] = "B2", !["street_address"] = "9 Oak Rd"]
        c == [a EXCEPT !["MLS"] = "C3", !["search_location"] = "CA-ON-Orillia",
                       !["street_address"] = "3 Elm St"]
    IN  { <<>>,
          <<a>>,
          <<b>>,
          <<a, c>>,
          <<a, [a EXCEPT !["search_location"] = "CA-ON-Orillia"], b>>,
          <<[b EXCEPT !["address_number"] = None], c>>,
          <<[a EXCEPT !["MLS"] = "D4", !["Price"] = <<450>>],
            [c EXCEPT !["search_location"] = None, !["Longitude"] = NaN]>> }

\* load_listings_to_db, lines 410-433: the table is read and prepared, the
\* connection is opened
PrepareLoadData ==
    /\ load_pc \in {"ready", "returned", "raised"}
    /\ Len(load_runs) < MaxLoadRuns
    /\ \E d \in LoadTables :
          /\ load_df' = d
          /\ load_rows' = PreparedRows(d)
          /\ mls_to_location' = MlsToLocation(d)
          /\ search_locations' = { e[2] : e \in MlsToLocation(d) }
          /\ load_stats' =
                 [NoStats EXCEPT !["skipped_rows"] =
                     Cardinality({ i \in 1..Len(d) : IsBadRow(d[i]) })]
          /\ load_runs' =
                 Append(load_runs,
                        [run_ts |-> run_ts + 1,
                         loaded |-> { <<Strip(d[i]["MLS"]), d[i]["search_location"]>> :
                                        i \in { k \in 1..Len(d) : IsLoaded(d[k]) } },
                         tracking |-> listing_db["listing_search_location"]])
    /\ run_ts' = run_ts + 1
    /\ db_before' = listing_db
    /\ listing_tx' = listing_db
    /\ load_raised' = {}
    /\ load_pc' = "load_to_staging"
    /\ UNCHANGED <<listing_db, loadRest>>

\* line 437
LoadToStaging ==
    /\ load_pc = "load_to_staging"
    /\ listing_tx' = load_to_staging(listing_tx, load_rows)
    /\ load_stats' = [load_stats EXCEPT !["staging_rows"] = Len(load_rows)]
    /\ load_pc' = "upsert_new_listings"
    /\ UNCHANGED <<listing_db, db_before, load_df, load_rows, mls_to_location,
                   search_locations, run_ts, load_raised, load_runs, loadRest>>

\* line 441
UpsertNewListings ==
    /\ load_pc = "upsert_new_listings"
    /\ IF DuplicateKey(NewListings(listing_tx))
       THEN /\ listing_tx' = listing_db
            /\ load_raised' = load_raised \cup {"IntegrityError unique"}
            /\ load_pc' = "raised"
            /\ UNCHANGED load_stats
       ELSE /\ listing_tx' = upsert_new_listings(listing_tx)
            /\ load_stats' =
                   [load_stats EXCEPT !["new_listings"] = Len(NewListings(listing_tx))]
            /\ load_pc' = "update_search_location_tracking"
            /\ UNCHANGED load_raised
    /\ UNCHANGED <<listing_db, db_before, load_df, load_rows, mls_to_location,
                   search_locations, run_ts, load_runs, loadRest>>

\* lines 445-461: the tracking update; on the foreign-key IntegrityError the
\* connection is rolled back and the update is run on the mls_ids found in listing
UpdateSearchLocationTracking ==
    /\ load_pc = "update_search_location_tracking"
    /\ \/ /\ listing_tx' =
                 update_search_location_tracking(listing_tx, mls_to_location, run_ts)
          /\ load_stats' =
                 [load_stats EXCEPT !["location_mappings"] = Cardinality(mls_to_location)]
          /\ UNCHANGED load_raised
       \/ /\ mls_to_location # {}
          /\ LET valid_mls_to_location == filter_valid_mls_ids(listing_db, mls_to_location)
             IN  /\ listing_tx' =
                        update_search_location_tracking(listing_db, valid_mls_to_location,
                                                        run_ts)
                 /\ load_stats' =
                        [load_stats EXCEPT
                            !["location_mappings"] = Cardinality(valid_mls_to_location)]
          /\ load_raised' = load_raised \cup {"IntegrityError foreign key"}
    /\ load_pc' = "detect_removed_listings"
    /\ UNCHANGED <<listing_db, db_before, load_df, load_rows, mls_to_location,
                   search_locations, run_ts, load_runs, loadRest>>

\* line 463
DetectRemovedListings ==
    /\ load_pc = "detect_removed_listings"
    /\ listing_tx' = detect_removed_listings(listing_tx, run_ts, search_locations)
    /\ load_stats' =
           [load_stats EXCEPT
               !["removals"] =
                   IF search_locations = {} THEN 0
                   ELSE Cardinality(RemovedFromAreas(listing_tx, run_ts, search_locations))]
    /\ load_pc' = "detect_relistings"
    /\ UNCHANGED <<listing_db, db_before, load_df, load_rows, mls_to_location,
                   search_locations, run_ts, load_raised, load_runs, loadRest>>

\* line 466
DetectRelistings ==
    /\ load_pc = "detect_relistings"
    /\ listing_tx' = detect_relistings(listing_tx)
    /\ load_stats' = [load_stats EXCEPT !["relistings"] = Cardinality(Relisted(listing_tx))]
    /\ load_pc' = "commit"
    /\ UNCHANGED <<listing_db, db_before, load_df, load_rows, mls_to_location,
                   search_locations, run_ts, load_raised, load_runs, loadRest>>

\* lines 470-482
CommitLoad ==
    /\ load_pc = "commit"
    /\ listing_db' = listing_tx
    /\ load_pc' = "returned"
    /\ UNCHANGED <<listing_tx, db_before, load_df, load_rows, mls_to_location,
                   search_locations, run_ts, load_stats, load_raised, load_runs, loadRest>>

\* lines 484-487: a statement of the try block raises an exception that is not
\* handled at lines 448-459; rollback, and the exception goes to the caller
LoadRaises ==
    /\ load_pc \in {"load_to_staging", "upsert_new_listings",
                    "update_search_location_tracking", "detect_removed_listings",
                    "detect_relistings", "commit"}
    /\ listing_tx' = listing_db
    /\ load_raised' = load_raised \cup {"OperationalError"}
    /\ load_pc' = "raised"
    /\ UNCHANGED <<listing_db, db_before, load_df, load_rows, mls_to_location,
                   search_locations, run_ts, load_stats, load_runs, loadRest>>

InitLoad ==
    /\ PoolIdle
    /\ AddrIdle
    /\ BatchIdle
    /\ MatchIdle
    /\ CleanIdle
    /\ EtlIdle
    /\ OsmIdle
    /\ TailIdle
    /\ listing_db = EmptyListingDb
    /\ listing_tx = EmptyListingDb
    /\ db_before = EmptyListingDb
    /\ load_df = <<>>
    /\ load_rows = <<>>
    /\ mls_to_location = {}
    /\ search_locations = {}
    /\ run_ts = 0
    /\ load_stats = NoStats
    /\ load_raised = {}
    /\ load_runs = <<>>
    /\ load_pc = "ready"

NextLoad ==
    \/ PrepareLoadData
    \/ LoadToStaging
    \/ UpsertNewListings
    \/ UpdateSearchLocationTracking
    \/ DetectRemovedListings
    \/ DetectRelistings
    \/ CommitLoad
    \/ LoadRaises

SpecLoad == InitLoad /\ [][NextLoad]_vars

-----------------------------------------------------------------------------
(* include/transform/base_cleaning.py: clean_extracted_listings, as the    *)
(* task clean_listings of dags/weekly_listings_etl.py calls it.  A row     *)
(* carries the MLS value and the search location it was extracted from;    *)
(* the numeric columns are rewritten row by row (lines 78-82) and decide   *)
(* nothing about which rows are kept.                                      *)

\* drop_duplicates(subset=["MLS"], keep="first"), line 69: the values are
\* compared as they were extracted, null equal to null
drop_duplicates(rows) ==
    RowsAt(rows, { i \in 1..Len(rows) :
                     \A j \in 1..(i - 1) : rows[j]["MLS"] # rows[i]["MLS"] })

\* clean_extracted_listings, lines 57-83
clean_extracted_listings(rows) ==
    IF rows = <<>> THEN <<>>
    ELSE LET deduped == drop_duplicates(rows)
             kept == RowsAt(deduped, { i \in 1..Len(deduped) : deduped[i]["MLS"] # None })
         IN  [i \in 1..Len(kept) |-> [kept[i] EXCEPT !["MLS"] = Strip(@)]]

\* weekly_listings_etl.clean_listings, lines 101-154
CleanListings ==
    /\ base_pc = "clean_listings"
    /\ base_df' = clean_extracted_listings(raw_listings)
    /\ base_pc' = "filter_listings"
    /\ UNCHANGED <<raw_listings, baseRest>>

MaxRawRows == 2

\* Extracted rows: one identifier as it is, with a leading and with a
\* trailing blank, another identifier, and no identifier.
RawRows ==
    [MLS : {"A1", " A1", "A1 ", "B2", None},
     search_location : {"CA-ON-Barrie", "CA-ON-Orillia"}]

InitBase ==
    /\ PoolIdle
    /\ AddrIdle
    /\ BatchIdle
    /\ MatchIdle
    /\ CleanIdle
    /\ EtlIdle
    /\ OsmIdle
    /\ LoadIdle
    /\ ClientIdle
    /\ raw_listings \in SeqsUpTo(RawRows, MaxRawRows)
    /\ base_df = <<>>
    /\ base_pc = "clean_listings"

NextBase == CleanListings

SpecBase == InitBase /\ [][NextBase]_vars

-----------------------------------------------------------------------------
(* dags/client_data_update_etl.py from match_existing_properties on, with  *)
(* include/transform/client_data_transform.py and                          *)
(* include/load/client_data_load.py.  A property of the master store is a  *)
(* record with property_id, address_id and the address columns; a listing  *)
(* of the master store is a record with mls_id, property_address_id,       *)
(* is_removed and removal_date.  A date is <<d>>, NaN when it is null.     *)
(* Address numbers are digit strings, which int() and str() leave as they  *)
(* are.                                                                    *)

\* match_existing_properties, lines 280-293: the results the call of
\* match_property_by_address can return for the row.  row.get('latitude') and
\* row.get('longitude') find no such column (the extract names them lat and
\* lon), so the call is made with lat = lon = None.
MatchOutcomes(props, row) ==
    LET l == [address_number |-> row["address_number"], street_name |-> row["street_name"],
              postal_code |-> row["postal_code"], municipality |-> row["municipality"],
              lat |-> NaN, lon |-> NaN]
    IN  UNION { match_property_by_address(props, candidates, l) :
                  candidates \in Orderings(Candidates(props, row["postal_code"])) }

\* lines 276-301: the row after the loop body
MatchRow(props, row) ==
    IF \/ row["address_number"] = None
       \/ row["street_name"] = None
       \/ row["postal_code"] = None
    THEN {row}
    ELSE { IF r = NoMatch THEN row
           ELSE [row EXCEPT
                    !["property_id"] = r.property_id,
                    !["address_id"] =
                        <<(CHOOSE c \in props : c.property_id = r.property_id).address_id>>,
                    !["match_type"] = r.strategy] :
             r \in MatchOutcomes(props, row) }

\* The loops of lines 276-301 and 314-341: the tables they can leave
RECURSIVE MatchAll(_, _)
MatchAll(props, rows) ==
    IF rows = <<>> THEN {<<>>}
    ELSE { <<h>> \o t : h \in MatchRow(props, Head(rows)), t \in MatchAll(props, Tail(rows)) }

\* match_existing_properties, lines 241-383
MatchExistingProperties ==
    /\ new_pc = "match_existing_properties"
    /\ new_df' \in MatchAll(m_properties, new_df)
    /\ removed_df' \in MatchAll(m_properties, removed_df)
    /\ new_pc' = "transform_create_property_pool"
    /\ removed_pc' = "transform_mark_removed"
    /\ UNCHANGED <<m_before, m_properties, m_pools, m_listings, properties_df, pools_new,
                   pools_existing, listings_df, updates_df, property_records,
                   existing_listings, clientRest>>

MaxNewListings == 2

\* generate_address_id and generate_pool_id draw from 2^63 values: the draws
\* of a run differ from each other and from the ids in the store.
FreshIds(ids, n) ==
    { f \in [1..n -> ids] : \A i, j \in 1..n : i # j => f[i] # f[j] }

AddressIds == { 100 + k : k \in 1..MaxNewListings }

PoolIds == { 900 + k : k \in 1..MaxNewListings }

\* transform_create_property_pool_objects, lines 368-475
TransformCreatePropertyPool ==
    /\ new_pc = "transform_create_property_pool"
    /\ LET new_properties_df ==
               RowsAt(new_df, { i \in 1..Len(new_df) : new_df[i]["property_id"] = None })
           existing_properties_df ==
               RowsAt(new_df, { i \in 1..Len(new_df) : new_df[i]["property_id"] # None })
           n == Len(new_properties_df)
       IN  \E address_id \in FreshIds(AddressIds, n) :
              /\ properties_df' =
                     [i \in 1..n |->
                        [address_id |-> address_id[i],
                         address_number |-> new_properties_df[i]["address_number"],
                         street_name |-> new_properties_df[i]["street_name"],
                         municipality |-> new_properties_df[i]["municipality"],
                         postal_code |-> new_properties_df[i]["postal_code"]]]
              /\ pools_new' =
                     [i \in 1..n |->
                        [address_id |-> address_id[i],
                         pool_type |-> new_properties_df[i]["pool_type"]]]
              /\ pools_existing' =
                     [i \in 1..Len(existing_properties_df) |->
                        [property_id |-> existing_properties_df[i]["property_id"],
                         pool_type |-> existing_properties_df[i]["pool_type"]]]
              /\ listings_df' =
                     [i \in 1..n |->
                        [mls_id |-> new_properties_df[i]["mls_id"],
                         address_id |-> address_id[i],
                         is_removed |-> FALSE,
                         removal_date |-> NaN]]
    /\ new_pc' = "load_properties"
    /\ UNCHANGED <<m_before, m_properties, m_pools, m_listings, new_df, removed_df,
                   updates_df, property_records, existing_listings, removed_pc, clientRest>>

\* The id the store gives the property inserted with this address_id.
NewPropertyId(address_id) == "n10" \o Char(DigitChars, address_id - 99)

\* upsert_properties, lines 75-93: INSERT ... ON CONFLICT (address_id) DO UPDATE
upsert_properties(props, rows) ==
    props \cup
    { [property_id |-> NewPropertyId(rows[i]["address_id"]),
       address_id |-> rows[i]["address_id"],
       address_number |-> PyStr(rows[i]["address_number"]),
       street_name |-> rows[i]["street_name"],
       municipality |-> rows[i]["municipality"],
       postal_code |-> rows[i]["postal_code"]] :
        i \in { k \in 1..Len(rows) :
                  \A c \in props : c.address_id # rows[k]["address_id"] } }

\* upsert_properties, lines 29-138
LoadProperties ==
    /\ new_pc = "load_properties"
    /\ m_properties' = upsert_properties(m_properties, properties_df)
    /\ property_records' =
           { [address_id |-> c.address_id, property_id |-> c.property_id] :
               c \in { c \in m_properties' :
                         \E i \in 1..Len(properties_df) :
                             properties_df[i]["address_id"] = c.address_id } }
    /\ new_pc' = "load_pools"
    /\ UNCHANGED <<m_before, m_pools, m_listings, new_df, removed_df, properties_df,
                   pools_new, pools_existing, listings_df, updates_df, existing_listings,
                   removed_pc, clientRest>>

\* upsert_pools, lines 141-248: a pool for every property record that has a
\* row in pools_new; the pools of existing properties are only counted
LoadPools ==
    /\ new_pc = "load_pools"
    /\ LET records ==
               { r \in property_records :
                   \E i \in 1..Len(pools_new) : pools_new[i]["address_id"] = r.address_id }
           ordered == SortedSeq({ r.address_id : r \in records })
       IN  \E pool_id \in FreshIds(PoolIds, Len(ordered)) :
              m_pools' =
                  m_pools \cup
                  { [id |-> pool_id[k],
                     pool_type |->
                         pools_new[CHOOSE i \in 1..Len(pools_new) :
                                      /\ pools_new[i]["address_id"] = ordered[k]
                                      /\ \A j \in 1..(i - 1) :
                                            pools_new[j]["address_id"] # ordered[k]]["pool_type"],
                     property_id |->
                         (CHOOSE r \in records : r.address_id = ordered[k]).property_id] :
                      k \in 1..Len(ordered) }
    /\ new_pc' = "load_listings"
    /\ UNCHANGED <<m_before, m_properties, m_listings, new_df, removed_df, properties_df,
                   pools_new, pools_existing, listings_df, updates_df, property_records,
                   existing_listings, removed_pc, clientRest>>

\* upsert_listings, lines 332-360: INSERT ... ON CONFLICT (mls_id) DO UPDATE,
\* which leaves is_removed, removal_date and the property of a stored row
upsert_listings(listings, rows) ==
    listings \cup
    { [mls_id |-> rows[i]["mls_id"],
       property_address_id |-> rows[i]["address_id"],
       is_removed |-> FALSE,
       removal_date |-> NaN] :
        i \in { k \in 1..Len(rows) : \A l \in listings : l.mls_id # rows[k]["mls_id"] } }

\* upsert_listings, lines 251-374
LoadListings ==
    /\ new_pc = "load_listings"
    /\ m_listings' = upsert_listings(m_listings, listings_df)
    /\ new_pc' = "done"
    /\ UNCHANGED <<m_before, m_properties, m_pools, new_df, removed_df, properties_df,
                   pools_new, pools_existing, listings_df, updates_df, property_records,
                   existing_listings, removed_pc, clientRest>>

\* transform_mark_removed_listings, lines 478-517
TransformMarkRemoved ==
    /\ removed_pc = "transform_mark_removed"
    /\ LET updates ==
               RowsAt(removed_df,
                      { i \in 1..Len(removed_df) : removed_df[i]["property_id"] # None })
       IN  updates_df' =
               [i \in 1..Len(updates) |->
                  [mls_id |-> updates[i]["mls_id"],
                   removal_date |-> updates[i]["removal_date"]]]
    /\ removed_pc' = "update_removed_listings"
    /\ UNCHANGED <<m_before, m_properties, m_pools, m_listings, new_df, removed_df,
                   properties_df, pools_new, pools_existing, listings_df, property_records,
                   existing_listings, new_pc, clientRest>>

\* update_removed_listings, lines 420-435: the rows check_sql returns
CheckExisting(listings, updates) ==
    { l \in listings : \E i \in 1..Len(updates) : updates[i]["mls_id"] = l.mls_id }

\* update_removed_listings, lines 439-457: the loop over the updates, each
\* UPDATE applied to the table as the earlier ones left it
RECURSIVE ApplyUpdates(_, _, _)
ApplyUpdates(listings, existing, updates) ==
    IF updates = <<>> THEN listings
    ELSE LET row == Head(updates)
             found == { e \in existing : e.mls_id = row["mls_id"] }
             skip == \/ found = {}
                     \/ \E e \in found : e.is_removed /\ ~IsNa(e.removal_date)
             updated ==
                 { IF /\ l.mls_id = row["mls_id"]
                      /\ (~l.is_removed \/ IsNa(l.removal_date))
                   THEN [l EXCEPT !.is_removed = TRUE, !.removal_date = row["removal_date"]]
                   ELSE l : l \in listings }
         IN  ApplyUpdates(IF skip THEN listings ELSE updated, existing, Tail(updates))

\* update_removed_listings, lines 377-480, run without another writer in between
update_removed_listings(listings, updates) ==
    ApplyUpdates(listings, CheckExisting(listings, updates), updates)

\* update_removed_listings, lines 391-435: the empty table returns at once;
\* otherwise the check query is run
UpdateRemovedCheck ==
    /\ removed_pc = "update_removed_listings"
    /\ existing_listings' = CheckExisting(m_listings, updates_df)
    /\ removed_pc' = IF updates_df = <<>> THEN "done" ELSE "update_sql"
    /\ UNCHANGED <<m_before, m_properties, m_pools, m_listings, new_df, removed_df,
                   properties_df, pools_new, pools_existing, listings_df, updates_df,
                   property_records, new_pc, clientRest>>

\* update_removed_listings, lines 439-459: the UPDATE statements and the commit
UpdateRemovedRows ==
    /\ removed_pc = "update_sql"
    /\ m_listings' = ApplyUpdates(m_listings, existing_listings, updates_df)
    /\ removed_pc' = "done"
    /\ UNCHANGED <<m_before, m_properties, m_pools, new_df, removed_df, properties_df,
                   pools_new, pools_existing, listings_df, updates_df, property_records,
                   existing_listings, new_pc, clientRest>>

\* The new pool listings of the listing store: two listings with one address,
\* the same address in another spelling, and a listing without postal code.
NewListingRows ==
    LET x1 == [mls_id |-> "X1", address_number |-> "123", street_name |-> "Street Avenue",
               municipality |-> "Toronto", postal_code |-> "M5V3A8",
               pool_type |-> "inground", removal_date |-> NaN,
               property_id |-> None, address_id |-> NaN, match_type |-> None]
    IN  { x1,
          [x1 EXCEPT !["mls_id"] = "X2"],
          [x1 EXCEPT !["mls_id"] = "X3", !["street_name"] = "St Ave"],
          [x1 EXCEPT !["mls_id"] = "X4", !["address_number"] = "9",
                     !["street_name"] = "Oak Rd", !["municipality"] = "Barrie",
                     !["postal_code"] = None] }

\* The row of listing with this mls_id, joined with a removal record.
RemovedRow(mls_id, removal_date) ==
    IF mls_id = "X0"
    THEN [mls_id |-> "X0", address_number |-> "123", street_name |-> "St Avenue",
          municipality |-> "Toronto", postal_code |-> "M5V3A8",
          pool_type |-> "inground", removal_date |-> <<removal_date>>,
          property_id |-> None, address_id |-> NaN, match_type |-> None]
    ELSE [(CHOOSE r \in NewListingRows : r["mls_id"] = mls_id)
             EXCEPT !["removal_date"] = <<removal_date>>]

\* The removed pool listings, latest removal first (ORDER BY removal_date DESC).
RemovedTables ==
    { <<>>,
      <<RemovedRow("X0", 5)>>,
      <<RemovedRow("X1", 5)>>,
      <<RemovedRow("X1", 5), RemovedRow("X0", 4)>>,
      <<RemovedRow("X1", 5), RemovedRow("X1", 4)>>,
      <<RemovedRow("X0", 5), RemovedRow("X0", 4)>> }

\* The master store before the run: empty, with the property of 123 St Ave,
\* and with that property and a listing of it.
MasterBefore ==
    LET p1 == [property_id |-> "p1", address_id |-> 7, address_number |-> "123",
               street_name |-> "St Ave", municipality |-> "Toronto",
               postal_code |-> "M5V3A8"]
        pool == [id |-> 900, pool_type |-> "inground", property_id |-> "p1"]
        x0 == [mls_id |-> "X0", property_address_id |-> 7, is_removed |-> FALSE,
               removal_date |-> NaN]
    IN  { EmptyMaster,
          [properties |-> {p1}, pools |-> {pool}, listings |-> {}],
          [properties |-> {p1}, pools |-> {pool}, listings |-> {x0}],
          [properties |-> {p1}, pools |-> {pool},
           listings |-> {[x0 EXCEPT !.is_removed = TRUE, !.removal_date = <<3>>]}] }

InitClient ==
    /\ PoolIdle
    /\ AddrIdle
    /\ BatchIdle
    /\ MatchIdle
    /\ CleanIdle
    /\ EtlIdle
    /\ OsmIdle
    /\ LoadIdle
    /\ BaseIdle
    /\ m_before \in MasterBefore
    /\ m_properties = m_before.properties
    /\ m_pools = m_before.pools
    /\ m_listings = m_before.listings
    /\ new_df \in { t \in SeqsUpTo(NewListingRows, MaxNewListings) :
                      \A i, j \in 1..Len(t) : t[i]["mls_id"] = t[j]["mls_id"] => i = j }
    /\ removed_df \in RemovedTables
    /\ properties_df = <<>>
    /\ pools_new = <<>>
    /\ pools_existing = <<>>
    /\ listings_df = <<>>
    /\ updates_df = <<>>
    /\ property_records = {}
    /\ existing_listings = {}
    /\ new_pc = "match_existing_properties"
    /\ removed_pc = "match_existing_properties"

NextClient ==
    \/ MatchExistingProperties
    \/ TransformCreatePropertyPool
    \/ LoadProperties
    \/ LoadPools
    \/ LoadListings
    \/ TransformMarkRemoved
    \/ UpdateRemovedCheck
    \/ UpdateRemovedRows

SpecClient == InitClient /\ [][NextClient]_vars

-----------------------------------------------------------------------------
(* Properties of the pool classifier.                                      *)

\* s has p as a substring (Python's "p in s")
Contains(s, p) == \E i \in 1..(Len(s) - Len(p) + 1) : SubSeq(s, i, i + Len(p) - 1) = p

\* The description of input row i, "" when it is null or the column is absent.
RawDescription(i) ==
    IF "Description" \notin df_in.columns THEN ""
    ELSE IF df_in.rows[i]["Description"] = None THEN ""
    ELSE df_in.rows[i]["Description"]

\* The call returned a frame with one row per input row.
Returned == pool_pc = "done" /\ Len(df.rows) = Len(df_in.rows)

(* C1: a row whose scoring verdict is 'private' and that carries the       *)
(* in-ground cue (and no above-ground cue) is output with pool_flag = true *)
(* and pool_type = 'in-ground'; so is scenario 1.                          *)
C1_PrivateInGroundIsOutput ==
    pool_pc = "done" =>
        /\ Len(df.rows) = Len(scored.rows)
        /\ \A i \in 1..Len(scored.rows) :
            ( /\ scored.rows[i]["pool_type"] = "private"
              /\ scored.rows[i]["in_ground_pool_flag"]
              /\ ~scored.rows[i]["above_ground_pool_flag"] )
            => ( /\ df.rows[i]["pool_flag"] = TRUE
                 /\ df.rows[i]["pool_type"] = "in-ground" )

(* C2: in the output, pool_flag is true only on rows whose scoring verdict *)
(* was 'private'; community, unknown and none verdicts give pool_flag =    *)
(* false and pool_type = 'none'; pool_type differs from 'none' only where  *)
(* pool_flag is true.                                                      *)
C2_VerdictConsistent ==
    pool_pc = "done" =>
        /\ Len(df.rows) = Len(scored.rows)
        /\ \A i \in 1..Len(df.rows) :
            /\ df.rows[i]["pool_flag"] \in BOOLEAN
            /\ df.rows[i]["pool_type"] \in {"none", "in-ground", "above-ground"}
            /\ df.rows[i]["pool_flag"] => scored.rows[i]["pool_type"] = "private"
            /\ scored.rows[i]["pool_type"] \in {"community", "unknown", "none"}
                 => ( /\ df.rows[i]["pool_flag"] = FALSE
                      /\ df.rows[i]["pool_type"] = "none" )
            /\ df.rows[i]["pool_type"] # "none" => df.rows[i]["pool_flag"]

\* Scenario 2 went through: scored 'community', output without a pool.
C2_Witness ==
    /\ Returned
    /\ \E i \in 1..Len(df.rows) :
        /\ RawDescription(i) = "Community centre with pool and clubhouse amenities"
        /\ scored.rows[i]["pool_type"] = "community"
        /\ scored.rows[i]["pool_evidence"] = "community_cues_near_pool"
        /\ df.rows[i]["pool_flag"] = FALSE
        /\ df.rows[i]["pool_type"] = "none"

\* The stages after identify_pool_negation, and the returned frame.
AfterNegation ==
    /\ pool_pc \in {"identify_communal_indications", "identify_private_indicators",
                    "infer_pool_construction_type", "infer_pool_type",
                    "rectify_pool_inference", "done"}
    /\ "pool_flag" \in df.columns
    /\ Len(df.rows) = Len(df_in.rows)

HasExclusionOrNoPool(s) ==
    \E p \in {"pool table", "carpool", "pooling", "shared pool of", "no pool"} :
        Contains(StrLower(s), p)

(* C3: from the stage after the exclusions and negations on, and in the    *)
(* output, pool_flag is false on every row whose description contains an   *)
(* exclusion phrase or 'no pool', whatever else it contains.               *)
C3_ClearedFlagStaysCleared ==
    AfterNegation =>
        \A i \in 1..Len(df.rows) :
            HasExclusionOrNoPool(RawDescription(i)) => df.rows[i]["pool_flag"] = FALSE

\* An excluded description with private and construction cues around it reached
\* every later stage with the flag cleared.
C3_Witness ==
    /\ Returned
    /\ \E i \in 1..Len(df.rows) :
        /\ RawDescription(i) = "Private backyard with pool table and hot tub"
        /\ scored.rows[i]["pool_exclusion_flag"]
        /\ df.rows[i]["pool_flag"] = FALSE

NegationPhrasesClaimed ==
    {"no pool", "without a pool", "does not have a pool", "doesn't have a pool",
     "not a pool"}

(* C4: after clean_and_normalize_description, create_pool_flag and         *)
(* identify_pool_negation, every row whose raw description contains one of *)
(* the five negation phrases has pool_negation_flag = true and pool_flag = *)
(* false.                                                                  *)
C4_NegationPhrasesDetected ==
    pool_pc = "identify_communal_indications" =>
        \A i \in 1..Len(df.rows) :
            (\E p \in NegationPhrasesClaimed : Contains(RawDescription(i), p))
            => ( /\ df.rows[i]["pool_negation_flag"] = TRUE
                 /\ df.rows[i]["pool_flag"] = FALSE )

PrivateScoreClaimed(row) ==
    3 * AsInt(row["private_pool_flag"]) + 2 * AsInt(row["in_ground_pool_flag"])
        + AsInt(row["above_ground_pool_flag"])

CommunalScoreClaimed(row) == 3 * AsInt(row["communal_pool_flag"])

(* C5: infer_pool_type gives each combination of the flags one verdict:    *)
(* with pool_flag, 'private' iff private >= communal + 2 and private > 0,  *)
(* 'community' iff communal >= private + 2 and communal > 0, never both,   *)
(* otherwise 'unknown', tagged ambiguous when a score is positive and      *)
(* no-strong-signal when both are 0; without pool_flag, 'none'.            *)
C5_OneVerdictPerFlags ==
    pool_pc = "rectify_pool_inference" =>
        /\ Len(scored.rows) = Len(df_in.rows)
        /\ \A i \in 1..Len(df_in.rows) :
            LET in == df_in.rows[i]
                out == scored.rows[i]
                ps == PrivateScoreClaimed(in)
                cs == CommunalScoreClaimed(in)
                pw == ps >= cs + 2 /\ ps > 0
                cw == cs >= ps + 2 /\ cs > 0
            IN  /\ out["pool_type"] \in {"none", "private", "community", "unknown"}
                /\ ~(pw /\ cw)
                /\ ~in["pool_flag"] => out["pool_type"] = "none"
                /\ in["pool_flag"] =>
                    /\ out["pool_type"] = "private" <=> pw
                    /\ out["pool_type"] = "community" <=> cw
                    /\ (~pw /\ ~cw) =>
                        /\ out["pool_type"] = "unknown"
                        /\ out["pool_evidence"] =
                             IF ps > 0 \/ cs > 0
                             THEN "ambiguous_private_vs_community"
                             ELSE "pool_mentioned_no_strong_signal"

\* A tie of private against communal cues was scored.
C5_Witness ==
    /\ pool_pc = "rectify_pool_inference"
    /\ \E i \in 1..Len(scored.rows) :
        /\ df_in.rows[i]["pool_flag"]
        /\ df_in.rows[i]["private_pool_flag"]
        /\ df_in.rows[i]["communal_pool_flag"]
        /\ scored.rows[i]["pool_type"] = "unknown"
        /\ scored.rows[i]["pool_evidence"] = "ambiguous_private_vs_community"

(* C6: add_pool_inference_columns raises for no input table; a row with an *)
(* empty or null description is output with pool_flag = false and          *)
(* pool_type = 'none'; a table with zero rows or without a Description     *)
(* column is processed to the end.                                         *)
C6_NoExceptionForAnyTable ==
    /\ exc = "none"
    /\ pool_pc # "raised"
    /\ Returned /\ "Description" \in df_in.columns =>
        \A i \in 1..Len(df.rows) :
            RawDescription(i) = "" =>
                /\ df.rows[i]["pool_flag"] = FALSE
                /\ df.rows[i]["pool_type"] = "none"

-----------------------------------------------------------------------------
(* Properties of the address stage.                                        *)

\* clean_addresses has parsed and validated the table.
Parsed == addr_pc = "categorize_address_issues"

ScenarioAddress == "123 Main St|Toronto, ON M5V3A8"

\* The province the parser returns for an address composed from the parts p.
ProvinceOf(p) ==
    IF p.province.name # None THEN p.province.name
    ELSE IF p.postal.canonical THEN p.province.text
    ELSE p.province.text \o " " \o p.postal.text

Categorized ==
    addr_pc \in {"correct_addresses", "geocode", "drop_still_bad", "done"}
        /\ addr_exc = "none" /\ ~IsEmpty(adf_in)

\* The coordinates the listing source delivered for the row at idx.
SourceLat(idx) ==
    IF "Latitude" \in adf_in.columns THEN adf_in.rows[idx]["Latitude"] ELSE NaN

SourceLon(idx) ==
    IF "Longitude" \in adf_in.columns THEN adf_in.rows[idx]["Longitude"] ELSE NaN

IsPartition ==
    /\ Range(critical_inds) \cup Range(minor_inds) = Range(issue_inds)
    /\ Range(critical_inds) \cap Range(minor_inds) = {}
    /\ Len(critical_inds) + Len(minor_inds) = Len(issue_inds)

(* C8, as the code has it: categorize_address_issues places every failing  *)
(* index in exactly one of the two output lists: in critical exactly when  *)
(* the row's coordinates are missing (column absent), null, or at least    *)
(* one of latitude and longitude equals 0, and in minor in every other     *)
(* case.                                                                   *)
C8_CriticalWhenEitherCoordinateZero ==
    Categorized =>
        /\ IsPartition
        /\ \A idx \in Range(issue_inds) :
              idx \in Range(critical_inds) <=>
                  \/ IsNa(SourceLat(idx))
                  \/ IsNa(SourceLon(idx))
                  \/ SourceLat(idx) = <<0>>
                  \/ SourceLon(idx) = <<0>>

\* A failing row with only one coordinate equal to 0 was triaged.
C8_Witness ==
    /\ Categorized
    /\ \E idx \in Range(critical_inds) :
          /\ SourceLat(idx) = <<0>>
          /\ SourceLon(idx) = <<-79>>
    /\ minor_inds # <<>>

(* C8, as stated: a failing index is in critical exactly when the row's    *)
(* coordinates are missing, null, or both equal to 0, and in minor in      *)
(* every other case, including a row where only one of the two is 0.       *)
C8_CriticalOnlyWhenBothZero ==
    Categorized =>
        /\ IsPartition
        /\ \A idx \in Range(issue_inds) :
              idx \in Range(critical_inds) <=>
                  \/ IsNa(SourceLat(idx))
                  \/ IsNa(SourceLon(idx))
                  \/ (SourceLat(idx) = <<0>> /\ SourceLon(idx) = <<0>>)

\* The address stage has returned its statistics.
StageDone == addr_pc = "done" /\ ~IsEmpty(adf_in)

\* The listing of input row idx is a row of the output.
InOutput(idx) == \E j \in 1..Len(adf.rows) : adf.rows[j]["MLS"] = adf_in.rows[idx]["MLS"]

(* C9: every row triaged as minor is present in the output of the address  *)
(* stage with its original Latitude and Longitude, for every setting of    *)
(* the API key, every number of critical rows and every outcome of the     *)
(* geocoding calls.                                                        *)
C9_MinorRowsAlwaysKept ==
    StageDone =>
        \A idx \in Range(minor_inds) :
            \E j \in 1..Len(adf.rows) :
                /\ adf.rows[j]["MLS"] = adf_in.rows[idx]["MLS"]
                /\ adf.rows[j]["Latitude"] = adf_in.rows[idx]["Latitude"]
                /\ adf.rows[j]["Longitude"] = adf_in.rows[idx]["Longitude"]

(* C10: a critical row for which the provider returned no result, and      *)
(* which therefore still fails validation after the correction attempts,   *)
(* is absent from the output of the address stage and is counted in the    *)
(* reported still_bad_rows and in the rows dropped.                        *)
C10_UnresolvedCriticalRowDropped ==
    StageDone =>
        /\ \A idx \in geo_failed :
              /\ idx \in Range(critical_inds)
              /\ ~InOutput(idx)
              /\ idx \in Range(still_bad)
        /\ geo_failed # {} =>
              /\ result.still_bad_rows = Len(still_bad)
              /\ result.still_bad_rows >= Cardinality(geo_failed)
              /\ result.rows_before - result.rows_after = result.still_bad_rows

\* The provider had no result for a critical row and the stage has returned.
C10_Witness ==
    /\ StageDone
    /\ geo_failed # {}
    /\ result.still_bad_rows > 0
    /\ Len(adf.rows) > 0

-----------------------------------------------------------------------------
(* Properties of correct_addresses.                                        *)

(* C11: within one invocation of correct_addresses the provider is called  *)
(* at most once per distinct query key (address_number, street_address,    *)
(* city, postal_code), for every sequence of provider successes and        *)
(* failures on rows sharing a key.                                         *)
C11_OneCallPerKey ==
    \A i, j \in 1..Len(calls) : i # j => calls[i].key # calls[j].key

\* correct_addresses is in its loop or has returned to its caller.
InLoopOrReturned == addr_pc \in {"geocode", "drop_still_bad"} /\ addr_exc = "none"

\* The indexes of the argument issue_inds that are rows of the table.
Exists(idx) == idx \in 1..Len(df_parsed.rows)

\* The first fix_cap entries of issue_inds that exist in the table.
WithinCap ==
    { critical_inds[k] : k \in
        { k \in 1..Len(critical_inds) :
            /\ Exists(critical_inds[k])
            /\ Cardinality({ j \in 1..k : Exists(critical_inds[j]) }) <= fix_cap } }

(* C12: correct_addresses attempts correction only for the first max_fix   *)
(* entries of issue_inds that exist in the table: the number of provider   *)
(* calls never exceeds max_fix, and a row past the cap is never sent to    *)
(* the provider and has all its fields unchanged.                          *)
C12_CapOnCorrections ==
    InLoopOrReturned =>
        /\ Len(calls) <= fix_cap
        /\ \A k \in 1..Len(calls) : calls[k].idx \in WithinCap
        /\ \A idx \in 1..Len(adf.rows) :
              idx \notin WithinCap => adf.rows[idx] = df_parsed.rows[idx]

\* The cap cut the list short: one row was corrected, another was left out.
C12_Witness ==
    /\ addr_pc = "drop_still_bad"
    /\ fix_cap = 1
    /\ Len(calls) = 1
    /\ \E idx \in Range(critical_inds) : Exists(idx) /\ idx \notin WithinCap
    /\ \E idx \in WithinCap : adf.rows[idx] # df_parsed.rows[idx]

(* C13: when the geocoding attempt for a row fails in any way (timeout,    *)
(* HTTP error, no results, malformed response such as non-numeric          *)
(* coordinates), every field of the row is the same after                  *)
(* correct_addresses as before it, the loop goes on to the next index      *)
(* without retrying, and no exception reaches the caller.                  *)
C13_FailedRowUnchanged ==
    /\ addr_pc \in {"geocode", "drop_still_bad"} => addr_exc = "none"
    /\ InLoopOrReturned =>
          \A idx \in geo_failed \cup float_failed :
              /\ adf.rows[idx] = df_parsed.rows[idx]
              /\ Cardinality({ k \in 1..Len(calls) : calls[k].idx = idx }) <= 1

\* The column of the table a component of the provider's result is written to.
ComponentOf ==
    [address_number |-> "address_number", street_address |-> "street_name",
     city |-> "city", postal_code |-> "postal_code"]

\* The loop is at a row whose attempt succeeds in this step.
SucceedsAt(idx) ==
    /\ addr_pc = "geocode"
    /\ fix_pos <= Len(to_fix)
    /\ fix_pos' = fix_pos + 1
    /\ idx = to_fix[fix_pos]
    /\ idx \notin geo_failed'
    /\ idx \notin float_failed'

\* The step writes the result res, and nothing else, to the row at idx.
WritesOnly(idx, res) ==
    /\ \A f \in DOMAIN ComponentOf :
          IF res.components[ComponentOf[f]] \in {None, ""}
          THEN adf'.rows[idx][f] = adf.rows[idx][f]
          ELSE adf'.rows[idx][f] = res.components[ComponentOf[f]]
    /\ \A c \in {"Latitude", "Longitude"} \cap adf.columns :
          adf'.rows[idx][c] =
              IF res.lat # NaN /\ res.lon # NaN /\ {"Latitude", "Longitude"} \subseteq adf.columns
              THEN (IF c = "Latitude" THEN res.lat ELSE res.lon)
              ELSE adf.rows[idx][c]
    /\ \A c \in adf.columns \ ({"Latitude", "Longitude"} \cup DOMAIN ComponentOf) :
          adf'.rows[idx][c] = adf.rows[idx][c]
    /\ \A c \in adf.columns :
          IF c \in {"Latitude", "Longitude"}
          THEN adf.rows[idx][c] # NaN => adf'.rows[idx][c] # NaN
          ELSE adf.rows[idx][c] \notin {None, ""} => adf'.rows[idx][c] \notin {None, ""}
    /\ adf'.columns = adf.columns
    /\ Len(adf'.rows) = Len(adf.rows)
    /\ \A j \in 1..Len(adf.rows) : j # idx => adf'.rows[j] = adf.rows[j]
    /\ df_parsed' = df_parsed

RateLimitEndsCorrection ==
    \A idx \in rate_limited :
        /\ addr_exc # "none"
        /\ calls[Len(calls)].idx = idx

\* In batch_geocode_pools a 429, and nothing else, ends the call with an exception.
RateLimitEndsBatch ==
    \A k \in 1..Len(batch_calls) :
        IF batch_calls[k].outcome = "HTTPError 429"
        THEN batch_exc = "HTTPError" /\ batch_pc = "raised" /\ k = Len(batch_calls)
        ELSE batch_exc = "none" \/ k < Len(batch_calls)

(* C15: a rate-limit response (HTTP 429) of the provider is not swallowed  *)
(* like a generic failure: in correct_addresses and in batch_geocode_pools *)
(* it propagates to the caller as an exception, so no further provider     *)
(* call is made in that batch, whereas timeouts and no-result responses    *)
(* are recovered per row.                                                  *)
C15_RateLimitPropagates == RateLimitEndsCorrection /\ RateLimitEndsBatch

-----------------------------------------------------------------------------
(* Properties of match_property_by_address.                                *)

\* The expansions of the listing and of a property of the store.
ListingExpansions ==
    normalize_address_for_matching(listing.address_number, listing.street_name,
                                   listing.postal_code, listing.municipality)

PropertyExpansions(c) ==
    normalize_address_for_matching(c.address_number, c.street_name, c.postal_code,
                                   c.municipality)

\* The textual strategy has a candidate to return.
TextualMatchExists ==
    \E c \in properties :
        /\ c.postal_code = listing.postal_code
        /\ ListingExpansions \cap PropertyExpansions(c) # {}

BothCoordinates == listing.lat # NaN /\ listing.lon # NaN

\* The square of the distance in metres from the listing to a property.
Away(c) ==
    (c.x - listing.lon[1]) * (c.x - listing.lon[1])
        + (c.y - listing.lat[1]) * (c.y - listing.lat[1])

PropertyOf(id) == CHOOSE c \in properties : c.property_id = id

(* C16: match_property_by_address tries the strategies in a fixed order:   *)
(* it returns 'coordinate_proximity' only when no candidate with the       *)
(* input's postal code has a variant set intersecting the input's and both *)
(* lat and lon were supplied, and then returns the nearest property within *)
(* 50 m; it returns no match when the textual match fails and either a     *)
(* coordinate is missing or no property lies within 50 m.                  *)
C16_StrategiesInOrder ==
    LET textual == TextualMatchExists
    IN  \A k \in 1..Len(match_results) :
        LET r == match_results[k]
        IN  /\ textual => r.strategy = "address_expansion"
            /\ r.strategy = "coordinate_proximity" =>
                  /\ ~textual
                  /\ BothCoordinates
                  /\ Away(PropertyOf(r.property_id)) <= 2500
                  /\ \A c \in properties : Away(PropertyOf(r.property_id)) <= Away(c)
            /\ r = NoMatch <=>
                  /\ ~textual
                  /\ \/ ~BothCoordinates
                     \/ \A c \in properties : Away(c) > 2500

\* The nearer of two properties within 50 m was returned for an address of no candidate.
C16_Witness ==
    /\ Len(match_results) > 0
    /\ match_results[1].strategy = "coordinate_proximity"
    /\ \E c \in properties :
          /\ c.property_id # match_results[1].property_id
          /\ c.postal_code = listing.postal_code
          /\ Away(c) <= 2500

(* C17: match_property_by_address is deterministic: for the same input     *)
(* address and the same candidate properties in the store, two calls       *)
(* return the same strategy and the same matched property, whatever order  *)
(* the store returns the candidates in and however many candidates have    *)
(* intersecting variant sets.                                              *)
C17_SameResultOnEveryCall ==
    \A i, j \in 1..Len(match_results) : match_results[i] = match_results[j]

\* The spellings of one street.
SameStreet ==
    { {"St Ave", "Street Ave", "St Avenue", "Street Avenue"}, {"Oak Rd", "Oak Road"} }

\* The property is at the listing's address, under some spelling of the street.
AtListingAddress(c) ==
    /\ c.address_number = listing.address_number
    /\ c.postal_code = listing.postal_code
    /\ \E streets \in SameStreet : {c.street_name, listing.street_name} \subseteq streets

(* C18: the textual strategy matches exactly when the input's variant set  *)
(* and a same-postal-code candidate's variant set share a string; for the  *)
(* inputs '123 St Avenue' and '123 Street Ave' and an existing property at *)
(* that address with the same postal code, stored under any of the         *)
(* spellings St/Street and Ave/Avenue, the call returns that property with *)
(* strategy 'address_expansion'.                                           *)
C18_SpellingsOfOneAddressMatch ==
    LET textual == TextualMatchExists
    IN  \A k \in 1..Len(match_results) :
        LET r == match_results[k]
        IN  /\ r.strategy = "address_expansion" <=> textual
            /\ r.strategy = "address_expansion" =>
                  /\ PropertyOf(r.property_id).postal_code = listing.postal_code
                  /\ ListingExpansions \cap PropertyExpansions(PropertyOf(r.property_id)) # {}
            /\ (\E c \in properties : AtListingAddress(c)) =>
                  /\ r.strategy = "address_expansion"
                  /\ AtListingAddress(PropertyOf(r.property_id))

\* '123 St Avenue' was matched to the property stored as '123 Street Ave'.
C18_Witness ==
    /\ Len(match_results) > 0
    /\ listing.street_name = "St Avenue"
    /\ match_results[1] = [property_id |-> "p2", strategy |-> "address_expansion"]
    /\ Cardinality(properties) = 2

-----------------------------------------------------------------------------
(* Properties of the cleaning steps.                                       *)

MunicipalityKey == {"street_name", "address_number", "municipality"}

PostalCodeKey == {"street_name", "address_number", "postal_code"}

(* C19: remove_internal_duplicates is idempotent: applying it to its own   *)
(* output removes no further row, i.e. the output contains no row that     *)
(* duplicates an earlier output row on (street_name, address_number,       *)
(* municipality) or on (street_name, address_number, postal_code).         *)
C19_DedupIdempotent ==
    /\ clean_pc = "applied_twice" => cdf = dedup_first
    /\ clean_pc \in {"filter_invalid_records", "applied_twice"} =>
          \A i, j \in 1..Len(cdf.rows) :
              i < j =>
                  /\ \E c \in MunicipalityKey : cdf.rows[i][c] # cdf.rows[j][c]
                  /\ \E c \in PostalCodeKey : cdf.rows[i][c] # cdf.rows[j][c]

\* Rows were removed on each of the two keys, one of them through a removed row.
C19_Witness ==
    /\ clean_pc = "applied_twice"
    /\ Len(cdf_in.rows) = 3
    /\ Len(cdf.rows) = 1
    /\ cdf_in.rows[2]["municipality"] = cdf_in.rows[1]["municipality"]
    /\ cdf_in.rows[2]["postal_code"] # cdf_in.rows[1]["postal_code"]
    /\ cdf_in.rows[3]["postal_code"] = cdf_in.rows[2]["postal_code"]
    /\ cdf_in.rows[3]["municipality"] # cdf_in.rows[1]["municipality"]

\* A value is missing: null, or empty after trim.
Missing(v) == v = None \/ Strip(v) = ""

(* C20: after standardize_text_fields followed by filter_invalid_records,  *)
(* as run by clean_and_transform_data, no surviving row is missing         *)
(* address_number or street_name (after trim), has missing or out-of-range *)
(* coordinates, or is missing both municipality and postal_code.           *)
C20_NoInvalidRecordSurvives ==
    clean_pc = "done" =>
        \A i \in 1..Len(cdf.rows) :
            LET row == cdf.rows[i]
            IN  /\ ~Missing(row["address_number"])
                /\ ~Missing(row["street_name"])
                /\ row["lat_addr"] # NaN /\ row["lon_addr"] # NaN
                /\ row["lat_addr"][1] \in -90..90
                /\ row["lon_addr"][1] \in -180..180
                /\ ~(Missing(row["municipality"]) /\ Missing(row["postal_code"]))

-----------------------------------------------------------------------------
(* Properties of stage_to_master_etl.                                      *)

\* The assignment with this id.
AssignmentOf(id) == CHOOSE r \in Range(assignment) : r["id"] = id

\* The master properties at the address of the assignment, on either compound key.
PropertiesAt(id) ==
    LET row == StandardizeRow(AssignmentOf(id))
        master_df == [j \in 1..Len(master_properties) |->
                         StandardizeRow(master_properties[j])]
    IN  { j \in 1..Len(master_df) :
            /\ master_df[j]["street_name"] = row["street_name"]
            /\ master_df[j]["address_number"] = row["address_number"]
            /\ \/ master_df[j]["municipality"] = row["municipality"]
               \/ master_df[j]["postal_code"] = row["postal_code"] }

\* The master pools of the property.
PoolsOf(property_id) ==
    { k \in 1..Len(master_pools) : master_pools[k]["property_id"] = property_id }

(* C21: an assignment is set uploaded=true only if its address row and its *)
(* pool row have been committed to the master store; an assignment whose   *)
(* address or pool insert failed, or whose pool could not be mapped to a   *)
(* property, is never flagged uploaded.                                    *)
C21_UploadedOnlyIfCommitted ==
    \A id \in uploaded :
        \E j \in PropertiesAt(id) : PoolsOf(master_properties[j]["id"]) # {}

(* C22: when a run stops after a master write and before                   *)
(* update_stage_upload_status, then after the next complete run the master *)
(* store holds, for each assignment of the stopped run, exactly one        *)
(* property row for its address key and exactly one pool row for that      *)
(* property.                                                               *)
C22_ReprocessingIdempotent ==
    (etl_pc = "completed" /\ ~insert_failed) =>
        \A id \in interrupted :
            /\ Cardinality(PropertiesAt(id)) = 1
            /\ \A j \in PropertiesAt(id) :
                  Cardinality(PoolsOf(master_properties[j]["id"])) = 1

\* The assignments of the stage store that no run has flagged.
Pending == { r["id"] : r \in Range(assignment) } \ uploaded

(* C23: every assignment extracted as pending is eventually set            *)
(* uploaded=true after finitely many complete, crash-free runs, including  *)
(* one whose row is removed during cleaning as an internal duplicate, an   *)
(* invalid record or a duplicate of a master property.                     *)
C23_PendingEventuallyUploaded == <>(Pending = {})

-----------------------------------------------------------------------------
(* Properties of query_overpass_api.                                       *)

\* The area of a box.
Area(box) == (box[3] - box[1]) * (box[4] - box[2])

\* Two boxes share more than a border.
Overlap(a, b) ==
    /\ a[1] < b[3] /\ b[1] < a[3]
    /\ a[2] < b[4] /\ b[2] < a[4]

\* The boxes cover exactly the box: they lie in it, share no area, and their
\* areas add up to its area.
CoverExactly(boxes, box) ==
    /\ \A i \in 1..Len(boxes) :
          /\ box[1] <= boxes[i][1] /\ boxes[i][3] <= box[3]
          /\ box[2] <= boxes[i][2] /\ boxes[i][4] <= box[4]
          /\ \A j \in 1..Len(boxes) : i # j => ~Overlap(boxes[i], boxes[j])
    /\ Area(boxes[1]) + Area(boxes[2]) + Area(boxes[3]) + Area(boxes[4]) = Area(box)

\* The smaller side of the box of a call.
MinDimension(frame) ==
    LET size == calculate_bbox_size_meters(frame["box"])
    IN  IF size[1] < size[2] THEN size[1] ELSE size[2]

\* What holds of every call at every moment.
OsmCallsBounded ==
    \A k \in 1..Len(osm_stack) :
        LET frame == osm_stack[k]
        IN  /\ frame["retry_count"] <= frame["max_retries"]
            /\ frame["posts"] <= frame["max_retries"] + 1
            /\ frame["final_posts"] <= 1
            /\ frame["final_posts"] = 1 =>
                  /\ frame["pc"] = "return"
                  /\ MinDimension(frame) <= MinBoxSize
            /\ frame["pc"] = "final_retry" => MinDimension(frame) <= MinBoxSize
            /\ frame["called"] # <<>> =>
                  /\ MinDimension(frame) > MinBoxSize
                  /\ (frame["pc"] = "return" => Len(frame["called"]) = 4)
                  /\ (Len(frame["called"]) = 4 => CoverExactly(frame["called"], frame["box"]))

(* C24: query_overpass_api terminates for every sequence of server         *)
(* responses: a 429 is retried at most max_retries times for one bounding  *)
(* box and then yields an empty result, a 504 on a box whose smaller side  *)
(* exceeds 500 m is answered by querying four quadrants that together      *)
(* cover exactly that box, and a 504 on a box at or below 500 m leads to   *)
(* exactly one further attempt whose outcome is returned without any       *)
(* further retry.                                                          *)
C24_OverpassQueryTerminates == []OsmCallsBounded /\ <>(osm_pc = "returned")

\* The call has returned after a subdivision, a final retry in a quadrant and a
\* quadrant that gave up after its retries.
C24_Witness ==
    /\ osm_pc = "returned"
    /\ {"subdivide", "final retry", "rate limit exceeded", "retry"} \subseteq osm_events
    /\ osm_elements # <<>>

-----------------------------------------------------------------------------
(* Properties of load_listings_to_db.                                      *)

\* The tables after the five writes of the run, applied to the tables it found.
AllWrites ==
    detect_relistings(
        detect_removed_listings(
            update_search_location_tracking(
                upsert_new_listings(load_to_staging(db_before, load_rows)),
                mls_to_location, run_ts),
            run_ts, search_locations))

(* C25: load_listings_to_db is atomic: either the staging load, the insert *)
(* of new listings, the tracking update, the removal detection and the     *)
(* relisting detection are all committed together and the returned counts  *)
(* describe what was committed, or, on any exception, none of these writes *)
(* is visible and the exception is re-raised to the caller.                *)
C25_LoadIsAtomic ==
    /\ load_pc = "returned" =>
          /\ load_raised = {}
          /\ listing_db = AllWrites
          /\ load_stats["staging_rows"] = Len(listing_db["listing_staging"])
          /\ load_stats["new_listings"] =
                 Len(listing_db["listing"]) - Len(db_before["listing"])
          /\ load_stats["removals"] =
                 Cardinality(listing_db["listing_removal"] \ db_before["listing_removal"])
          /\ load_stats["relistings"] =
                 Cardinality(listing_db["re_listing"] \ db_before["re_listing"])
    /\ load_pc = "raised" => listing_db = db_before
    /\ (load_raised # {} /\ load_pc \in {"returned", "raised"}) =>
          /\ load_pc = "raised"
          /\ listing_db = db_before

\* The run that wrote a removal record.
RunOf(removal) ==
    load_runs[CHOOSE k \in 1..Len(load_runs) : load_runs[k]["run_ts"] = removal["removal_date"]]

(* C26: after any sequence of listing-load runs, listing_removal holds at  *)
(* most one record per (mls_id, search_location); a run records a removal  *)
(* for a pair only if that location yielded at least one loaded listing in *)
(* the run and the pair's last_seen is earlier than the run timestamp; a   *)
(* listing loaded in a run is never recorded as removed from its location  *)
(* by that run, and listings of a location that returned nothing in the    *)
(* run are never marked removed.                                           *)
C26_RemovalsOnlyOfUnseenPairs ==
    \A r \in listing_db["listing_removal"] :
        /\ \A q \in listing_db["listing_removal"] :
              (q["mls_id"] = r["mls_id"] /\ q["search_location"] = r["search_location"])
                  => q = r
        /\ \E e \in RunOf(r)["loaded"] : e[2] = r["search_location"]
        /\ \E t \in RunOf(r)["tracking"] :
              /\ t["mls_id"] = r["mls_id"]
              /\ t["search_location"] = r["search_location"]
              /\ t["last_seen"] < r["removal_date"]
        /\ <<r["mls_id"], r["search_location"]>> \notin RunOf(r)["loaded"]

-----------------------------------------------------------------------------
(* Properties of the order of the cleaning steps.                          *)

\* Two rows are rows for one address: they agree on one of the compound keys.
SameAddress(a, b) ==
    /\ a["street_name"] = b["street_name"]
    /\ a["address_number"] = b["address_number"]
    /\ (a["municipality"] = b["municipality"] \/ a["postal_code"] = b["postal_code"])

(* C27: in clean_and_transform_data, if the input contains a row for an    *)
(* address that passes every check of filter_invalid_records, then the     *)
(* data after internal-duplicate removal and invalid-record filtering      *)
(* still contains a row for that address, for every row order and whatever *)
(* other rows share one of its compound keys.                              *)
C27_ValidAddressSurvivesCleaning ==
    clean_pc = "done" =>
        \A i \in 1..Len(cdf_in.rows) :
            LET row == StandardizeRow(cdf_in.rows[i])
            IN  IsValidRecord(row) =>
                    \E j \in 1..Len(cdf.rows) : SameAddress(cdf.rows[j], row)

-----------------------------------------------------------------------------
(* Properties of clean_extracted_listings.                                 *)

(* C28: after clean_extracted_listings the MLS identifier is a unique key  *)
(* of the table: no two output rows carry the same MLS string, including   *)
(* inputs whose MLS values differ only by leading or trailing whitespace,  *)
(* so that upsert_new_listings is never handed two rows with one mls_id.   *)
C28_MlsIsUniqueKey ==
    base_pc = "filter_listings" =>
        \A i, j \in 1..Len(base_df) :
            base_df[i]["MLS"] = base_df[j]["MLS"] => i = j

-----------------------------------------------------------------------------
(* Properties of client_data_update_etl.                                   *)

\* The rows of properties_to_insert at the address of this row.
PropertiesToInsertAt(row) ==
    { k \in 1..Len(properties_df) :
        /\ properties_df[k]["address_number"] = row["address_number"]
        /\ properties_df[k]["street_name"] = row["street_name"]
        /\ properties_df[k]["postal_code"] = row["postal_code"] }

\* match_property_by_address, given the address of p, finds q.
MatcherFinds(p, q) ==
    /\ p.postal_code = q.postal_code
    /\ FirstIntersecting(<<q>>,
           normalize_address_for_matching(p.address_number, p.street_name,
                                          p.postal_code, p.municipality)) # NoMatch

(* C29: a run creates at most one new property per address: when two new   *)
(* listings of the batch have the same address_number, street_name and     *)
(* postal_code and no existing property matches either,                    *)
(* match_existing_properties followed by                                   *)
(* transform_create_property_pool_objects yields a single property to      *)
(* insert for them, and the run adds no two properties to the master store *)
(* that match_property_by_address treats as the same address.              *)
C29_OnePropertyPerAddress ==
    /\ new_pc \in {"load_properties", "load_pools", "load_listings", "done"} =>
          \A i, j \in 1..Len(new_df) :
              ( /\ i < j
                /\ new_df[i]["address_number"] = new_df[j]["address_number"]
                /\ new_df[i]["street_name"] = new_df[j]["street_name"]
                /\ new_df[i]["postal_code"] = new_df[j]["postal_code"]
                /\ new_df[i]["property_id"] = None
                /\ new_df[j]["property_id"] = None )
              => Cardinality(PropertiesToInsertAt(new_df[i])) = 1
    /\ \A p, q \in m_properties \ m_before.properties :
          (p # q /\ p.postal_code # None) => ~MatcherFinds(p, q)

\* The master listings when the branch of the new listings runs first, and
\* when the branch of the removed listings runs first.
NewBranchFirst ==
    update_removed_listings(upsert_listings(m_before.listings, listings_df), updates_df)

RemovedBranchFirst ==
    upsert_listings(update_removed_listings(m_before.listings, updates_df), listings_df)

\* The interleaving of the two branches does not decide the master listings.
InterleavingsAgree ==
    (new_pc = "done" /\ removed_pc = "done") =>
        /\ m_listings = NewBranchFirst
        /\ m_listings = RemovedBranchFirst

\* A listing inserted by load_listings and reported removed in the run ends
\* flagged removed, with its removal date.
InsertedAndRemovedEndsRemoved ==
    (new_pc = "done" /\ removed_pc = "done") =>
        \A i \in 1..Len(listings_df) : \A k \in 1..Len(removed_df) :
            removed_df[k]["mls_id"] = listings_df[i]["mls_id"] =>
                \E l \in m_listings :
                    /\ l.mls_id = listings_df[i]["mls_id"]
                    /\ l.is_removed
                    /\ ~IsNa(l.removal_date)

(* C30: the master listings after a client_data_update_etl run are the     *)
(* same for every interleaving of the branch load_properties, load_pools,  *)
(* load_listings with the branch update_removed_listings: a listing that   *)
(* is inserted by load_listings and reported removed in the same run       *)
(* always ends with is_removed = true and its removal_date set.            *)
C30_RemovalSurvivesInterleaving == InterleavingsAgree /\ InsertedAndRemovedEndsRemoved


=============================================================================
